---------------------------- MODULE Spec2Model ----------------------------
(***************************************************************************)
(* Listing acquisition pipeline of DaftScraperMap (Backend/core).          *)
(*                                                                         *)
(* Two state machines share this module:                                   *)
(*   SpecFetch  one call of Fetcher.fetch_page_html / fetch_json_api,      *)
(*              one action per iteration of the attempt loop;              *)
(*   Spec       the orchestrator runs of DaftScraper (scrape_and_upload,   *)
(*              scrape_limited_and_upload), one action per loop iteration. *)
(***************************************************************************)
EXTENDS Integers, Sequences, FiniteSets, TLC

(***************************************************************************)
(* Configuration (Backend/config.py, defaults).                            *)
(***************************************************************************)
MAX_PAGES_TO_FETCH == 5
RETRY_DELAY_MS == 2000

\* config.MAX_FETCH_RETRIES is read from the environment (default 2); the
\* model lets it be any value of 0..MaxRetries.
MaxRetries == 3

VARIABLES
    \* ---- Fetcher: one fetch call --------------------------------------
    MAX_FETCH_RETRIES, \* config.MAX_FETCH_RETRIES of this deployment
    fetch_fn,          \* "none" | "fetch_page_html" | "fetch_json_api"
    page_number,       \* argument page_number of the call
    utils_importable,  \* does "from utils import delay" resolve in this deployment
    attempt,           \* loop variable of "for attempt in range(1, MAX_FETCH_RETRIES + 2)"
    fetch_log,         \* history: requests issued and delays slept, in order
    responses,         \* history: upstream outcome of each request to the url
    fetch_result,      \* how the call ended
    \* ---- Upstream source and persistence collaborator ------------------
    source,            \* what the site serves: kind of each result page, reported total
    db,                \* ids of the rows of table "listings"
    \* ---- DaftScraper: one run ------------------------------------------
    mode,              \* "idle" | "scrape_and_upload" | "scrape_limited_and_upload"
    pc,                \* "idle" | "paging" | "upsert" | "done"
    max_pages,         \* argument max_pages of scrape_limited_and_upload
    use_json_api,      \* argument use_json_api of scrape_all_pages
    current_page,
    total_pages,
    all_properties,    \* scrape_all_pages: ScrapedProperty records collected
    existing_ids,      \* result of get_existing_property_ids
    processed_property_ids,
    new_properties,    \* PropertyListing records to upsert
    i,                 \* loop variable of "for i in range(0, len(new_properties), batch_size)"
    total_inserted,
    result,            \* the dict the run returns
    \* ---- history ------------------------------------------------------
    pages_fetched,     \* result pages requested in this run, in order
    timeline,          \* history: the paging loops entered, the delays and the requests, in order
    snapshot_at,       \* Len(pages_fetched) when get_existing_property_ids was called, -1 before
    batches,           \* the batches passed to upsert_properties_batch in this run
    returned,          \* rows each upsert_properties_batch call of this run returned, -1 if it raised
    batch_failed,      \* some upsert_properties_batch call of this run raised
    prev,              \* mode and argument of the run before this one, if it succeeded
                       \* with every batch upserted
    closed,            \* Fetcher.close has been called since this run started
    session_closed,    \* Fetcher.close has been called on the scraper's one session
    \* ---- A request for both categories ---------------------------------
    both_pc,           \* "none" | "rent" | "sale" | "done": the call in progress
    max_per_type,      \* request.max_properties // 2, -1 when the request has no max_properties
    results,           \* results['rent'], results['sale']
    both_result,       \* the combined dict
    \* ---- Field normalizers: one price string ---------------------------
    price_string,      \* argument of parse_price
    parsed_price_result,
    listing_price,     \* price_eur and price_period of the PropertyListing
    \* ---- Field normalizers: one bedroom string -------------------------
    bed_string,        \* argument of parse_beds
    parsed_beds,
    listing_bedrooms,  \* bedrooms of the PropertyListing
    \* ---- Parser: one result page --------------------------------------
    parse_fn,          \* "none" | "parse_search_results" | "parse_next_data_search_results"
    parse_arg,         \* html or next_data
    parse_pc,          \* "idle" | "listings" | "cards" | "done"
    properties,        \* the list the function is building
    item_idx,          \* position of the loop over the listings or the cards
    parse_result,      \* how the call ended
    \* ---- Parser: one detail page --------------------------------------
    property_data,     \* argument property_data of parse_property_details
    detail_html,       \* argument html
    property_before,   \* history: property_data when the call started
    \* ---- Fetcher: one structured-data request --------------------------
    nd_fn,             \* "none" | "fetch_search_results_json" | "get_build_id"
                       \* | "build_property_api_url"
    response,          \* the answer to its session.get
    nd_result,         \* how the call ended
    \* ---- Parser: one parse of a property-details payload ---------------
    json_listing,      \* json_data["pageProps"]["listing"], its point and location
    enhanced_property, \* the ScrapedProperty returned, its latitude and longitude
    \* ---- REST API: one server process -----------------------------------
    lifespan_state,    \* "startup" | "serving" | "failed"
    supabase_configured, \* config.SUPABASE_URL and config.SUPABASE_KEY are set
    handled,           \* the POST requests received so far, with what became of each
    session_requests,  \* requests open on scraper_instance.fetcher.session
    \* ---- Orchestrator: one call of scrape_limited_pages ------------------
    max_properties,    \* argument max_properties
    properties_scraped,
    properties_on_page, \* the listings of the page the inner loop has not reached yet
    detailed_properties

fetch_vars == <<MAX_FETCH_RETRIES, fetch_fn, page_number, utils_importable, attempt,
                fetch_log, responses, fetch_result>>

run_vars == <<source, db, mode, pc, max_pages, use_json_api, current_page, total_pages,
              all_properties, existing_ids, processed_property_ids, new_properties, i,
              total_inserted, result, pages_fetched, timeline, snapshot_at, batches, returned,
              batch_failed, prev, closed, session_closed>>

both_vars == <<both_pc, max_per_type, results, both_result>>

price_vars == <<price_string, parsed_price_result, listing_price>>

beds_vars == <<bed_string, parsed_beds, listing_bedrooms>>

\* One call of a parser or normalizer function at a time
parse_vars == <<parse_fn, parse_arg, parse_pc, properties, item_idx, parse_result>>

details_vars == <<property_data, detail_html, property_before>>

json_vars == <<nd_fn, response, nd_result, json_listing, enhanced_property>>

api_vars == <<lifespan_state, supabase_configured, handled, session_requests>>

pages_vars == <<max_properties, properties_scraped, properties_on_page, detailed_properties>>

unit_vars == <<price_vars, beds_vars, parse_vars, details_vars, json_vars, api_vars,
               pages_vars>>

vars == <<MAX_FETCH_RETRIES, fetch_fn, page_number, utils_importable, attempt, fetch_log,
          responses, fetch_result, source, db, mode, pc, max_pages, use_json_api,
          current_page, total_pages, all_properties, existing_ids, processed_property_ids,
          new_properties, i, total_inserted, result, pages_fetched, timeline, snapshot_at, batches,
          returned, batch_failed, prev, closed, session_closed, both_pc, max_per_type, results, both_result,
          price_string, parsed_price_result, listing_price,
          bed_string, parsed_beds, listing_bedrooms,
          parse_fn, parse_arg, parse_pc, properties, item_idx, parse_result,
          property_data, detail_html, property_before, nd_fn, response, nd_result,
          json_listing, enhanced_property,
          lifespan_state, supabase_configured, handled, session_requests,
          max_properties, properties_scraped, properties_on_page, detailed_properties>>

(***************************************************************************)
(* Fetcher                                                                 *)
(***************************************************************************)
\* What the endpoint can do with one session.get(url, ...):
\*   a status code, a timeout, a transport error, or (JSON variant) a 200
\*   whose body is not JSON.
Outcomes == {"200", "403", "404", "500", "timeout", "conn_error", "bad_json"}

GetUrl == [ev |-> "get_url", ms |-> 0]
GetMain == [ev |-> "get_main", ms |-> 0]
Delay(ms) == [ev |-> "delay", ms |-> ms]

Running == [kind |-> "running", exc |-> "", retry_after |-> 0,
            timeout |-> FALSE, url |-> FALSE, attempt |-> 0]
NoCall == [Running EXCEPT !.kind = "none"]
Returned == [Running EXCEPT !.kind = "returned"]
Raised(exc) == [Running EXCEPT !.kind = "raised", !.exc = exc]

\* raise ScrapingException(..., url=url, status_code=404)
ScrapingException404 == [Raised("ScrapingException") EXCEPT !.url = TRUE]
\* raise ScrapingException("Invalid JSON response ...", url=url, ...)
ScrapingExceptionJson == [Raised("ScrapingException") EXCEPT !.url = TRUE]
\* raise RateLimitException(..., retry_after=config.RETRY_DELAY_MS * 2, details={"url": url, ...})
RateLimitException ==
    [Raised("RateLimitException") EXCEPT !.retry_after = RETRY_DELAY_MS * 2, !.url = TRUE]
\* raise NetworkException(..., url=url, timeout=t, details={"attempt": attempt, ...})
NetworkException(t, a) ==
    [Raised("NetworkException") EXCEPT !.timeout = t, !.url = TRUE, !.attempt = a]
\* "from utils import delay" with no top-level module utils on sys.path
ModuleNotFoundError == Raised("ModuleNotFoundError")

\* The warm-up of fetch_page_html: on the first attempt for result page 1 the
\* main page is requested and, if that did not raise, delay(1000) follows;
\* a bare "except: pass" swallows every failure, the failed import included.
MainPageVisit_EveryAttempt(fn, pn, att, main_ok) ==
    IF fn = "fetch_page_html" /\ pn = 1
    THEN <<GetMain>> \o (IF main_ok /\ utils_importable THEN <<Delay(1000)>> ELSE <<>>)
    ELSE <<>>

MainPageVisit(fn, pn, att, main_ok) ==
    IF fn = "fetch_page_html" /\ pn = 1 /\ att = 1
    THEN <<GetMain>> \o (IF main_ok /\ utils_importable THEN <<Delay(1000)>> ELSE <<>>)
    ELSE <<>>

\* The handlers' test "attempt <= config.MAX_FETCH_RETRIES": a retry is left.
RetryAllowed(att) == att <= MAX_FETCH_RETRIES

\* The call ends at this request, with result r.
EndWith(log, r) ==
    /\ fetch_log' = log
    /\ fetch_result' = r
    /\ UNCHANGED attempt

\* "from utils import delay; delay(ms)" followed by the next loop iteration;
\* the import raises where the module does not resolve, and none of the
\* handlers of the fetch catches that.  (The for loop always has a next
\* iteration here: a retry is only taken while attempt <= MAX_FETCH_RETRIES,
\* so the raise after the loop, fetcher.py 93-97 and 179-183, is never reached.)
RetryAfterDelay_NoIncrement(log, ms) ==
    IF utils_importable
    THEN /\ fetch_log' = Append(log, Delay(ms))
         /\ attempt' = attempt
         /\ fetch_result' = Running
    ELSE EndWith(log, ModuleNotFoundError)

RetryAfterDelay(log, ms) ==
    IF utils_importable
    THEN /\ fetch_log' = Append(log, Delay(ms))
         /\ attempt' = attempt + 1
         /\ fetch_result' = Running
    ELSE EndWith(log, ModuleNotFoundError)

\* if response.status_code == 404: raise ScrapingException(...): neither
\* "except Timeout" nor "except RequestException" matches a ScrapingException.
on_404_Retried(log) ==
    IF RetryAllowed(attempt)
    THEN RetryAfterDelay(log, RETRY_DELAY_MS)
    ELSE EndWith(log, NetworkException(FALSE, attempt))

on_404(log) == EndWith(log, ScrapingException404)

\* if response.status_code == 403: doubled delay and continue, or RateLimitException
on_403_PlainDelay(log) ==
    IF RetryAllowed(attempt)
    THEN RetryAfterDelay(log, RETRY_DELAY_MS)
    ELSE EndWith(log, RateLimitException)

on_403(log) ==
    IF RetryAllowed(attempt)
    THEN RetryAfterDelay(log, RETRY_DELAY_MS * 2)
    ELSE EndWith(log, RateLimitException)

\* except requests.exceptions.Timeout
on_Timeout(log) ==
    IF ~RetryAllowed(attempt)
    THEN EndWith(log, NetworkException(TRUE, attempt))
    ELSE RetryAfterDelay(log, RETRY_DELAY_MS)

\* except requests.exceptions.RequestException (transport error, or the
\* HTTPError of response.raise_for_status())
on_RequestException(log) ==
    IF ~RetryAllowed(attempt)
    THEN EndWith(log, NetworkException(FALSE, attempt))
    ELSE RetryAfterDelay(log, RETRY_DELAY_MS)

fetch_start(fn, pn) ==
    /\ fetch_fn = "none"
    /\ fetch_fn' = fn
    /\ page_number' = pn
    /\ attempt' = 1
    /\ fetch_log' = <<>>
    /\ responses' = <<>>
    /\ fetch_result' = Running
    /\ UNCHANGED <<utils_importable, MAX_FETCH_RETRIES>>
    /\ UNCHANGED <<run_vars, both_vars, unit_vars>>

\* One iteration of "for attempt in range(1, config.MAX_FETCH_RETRIES + 2)".
fetch_attempt(outcome, main_ok) ==
    /\ fetch_fn # "none"
    /\ fetch_result.kind = "running"
    /\ attempt \in 1..(MAX_FETCH_RETRIES + 1)
    /\ outcome = "bad_json" => fetch_fn = "fetch_json_api"
    /\ main_ok = FALSE => (fetch_fn = "fetch_page_html" /\ page_number = 1 /\ attempt = 1)
    /\ LET log == fetch_log \o MainPageVisit(fetch_fn, page_number, attempt, main_ok)
                    \o <<GetUrl>>
       IN  /\ responses' = Append(responses, outcome)
           /\ CASE outcome = "404" -> on_404(log)
                [] outcome = "403" -> on_403(log)
                [] outcome = "200" -> EndWith(log, Returned)
                [] outcome = "bad_json" -> EndWith(log, ScrapingExceptionJson)
                [] outcome = "timeout" -> on_Timeout(log)
                [] outcome \in {"500", "conn_error"} -> on_RequestException(log)
    /\ UNCHANGED <<fetch_fn, page_number, utils_importable, MAX_FETCH_RETRIES>>
    /\ UNCHANGED <<run_vars, both_vars, unit_vars>>

\* The caller takes the result; the fetcher is ready for the next call.
fetch_end ==
    /\ fetch_fn # "none"
    /\ fetch_result.kind \in {"returned", "raised"}
    /\ fetch_fn' = "none"
    /\ page_number' = 0
    /\ attempt' = 0
    /\ fetch_log' = <<>>
    /\ responses' = <<>>
    /\ fetch_result' = NoCall
    /\ UNCHANGED <<utils_importable, MAX_FETCH_RETRIES>>
    /\ UNCHANGED <<run_vars, both_vars, unit_vars>>

InitFetch ==
    /\ MAX_FETCH_RETRIES \in 0..MaxRetries
    /\ fetch_fn = "none"
    /\ page_number = 0
    /\ utils_importable \in BOOLEAN
    /\ attempt = 0
    /\ fetch_log = <<>>
    /\ responses = <<>>
    /\ fetch_result = NoCall

(***************************************************************************)
(* Python values                                                           *)
(***************************************************************************)
\* A str is a sequence of characters; the characters 0..9 are the decimal
\* digits and Letter is a character that is not a digit.
Letter == 10

\* str.isdigit()
isdigit(s) == Len(s) > 0 /\ \A k \in DOMAIN s : s[k] \in 0..9

\* int(s) of a string of decimal digits
RECURSIVE int(_)
int(s) == IF Len(s) = 0 THEN 0
          ELSE 10 * int(SubSeq(s, 1, Len(s) - 1)) + s[Len(s)]

\* str(n) of a non-negative int (used to write the ids of the source)
RECURSIVE str(_)
str(n) == IF n < 10 THEN <<n>> ELSE Append(str(n \div 10), n % 10)

\* PropertyListing.id is Optional[int]; ids are non-negative, None is -1.
None == -1

\* Python compares a str and an int as unequal, whatever their contents:
\* values carry their type.
PyStr(s) == [type |-> "str", s |-> s, n |-> 0]
PyInt(n) == [type |-> "int", s |-> <<>>, n |-> n]

\* "x in ids" for a set of ints: some element equals x, which takes an int
py_in_AnyType(x, ids) == (IF x.type = "int" THEN x.n ELSE int(x.s)) \in ids

py_in(x, ids) == x.type = "int" /\ x.n \in ids

(***************************************************************************)
(* Upstream source                                                         *)
(***************************************************************************)
batch_size == 100

\* How the detail requests of one listing behave:
\*   json_ok     the detail JSON has a listing (whose id is jid)
\*   json_raise  fetch_json_api raises
\*   html_ok     no usable detail JSON, the detail page is fetched
\*   html_empty  no usable detail JSON, the detail page has an empty body
\*   html_raise  no usable detail JSON, fetch_page_html raises
DetailKinds == {"json_ok", "json_raise", "html_ok", "html_empty", "html_raise"}

\* A listing of a result page: the id of the search payload and its detail.
Candidate(id, detail, jid) == [id |-> id, detail |-> detail, jid |-> jid]

c1 == Candidate(str(1), "json_ok", str(1))
c2 == Candidate(str(2), "html_ok", str(2))
c3 == Candidate(str(3), "html_empty", str(3))
c4 == Candidate(str(4), "json_ok", str(1))       \* detail JSON carries another id
cMissing == Candidate(<<>>, "json_raise", <<>>)  \* no identifier upstream
cNotDigits == Candidate(<<Letter, 7>>, "html_raise", <<>>)

PageA == <<c1, c2, cMissing, c1>>
PageB == <<c3, cNotDigits, c4>>
\* a long page: batch_size distinct listings, then one of PageA again
PageBulk == [k \in 1..batch_size |-> Candidate(str(100 + k), "json_ok", str(100 + k))]
                \o <<c1>>

\* Kinds of result page:
\*   A, B, Bulk  served with those listings
\*   Empty       served with no listing
\*   Fail        every request for the page fails
\*   Flaky       the first request of a run fails, later ones serve PageA
PageKinds == {"A", "B", "Bulk", "Fail", "Flaky"}

\* The site serves MaxUpPages pages of listings; the pages beyond are Empty.
MaxUpPages == 2

\* "N total results" on result page 1; -1: the page does not say.
TotalResults == {-1, 1000000}

\* (only result page 1 is ever requested twice in a run, so a Flaky page
\* after the first would be a Fail page)
Sources == {src \in [kinds : [1..MaxUpPages -> PageKinds], total : TotalResults] :
               \A p \in 2..MaxUpPages : src.kinds[p] # "Flaky"}

KindOf(page) == IF page \in 1..MaxUpPages THEN source.kinds[page] ELSE "Empty"

\* Does the request for a result page fail (fetch_page_html raises,
\* fetch_search_results_json returns None)?
PageFails(page) ==
    \/ KindOf(page) = "Fail"
    \/ KindOf(page) = "Flaky" /\ \A k \in DOMAIN pages_fetched : pages_fetched[k] # page

ItemsOf(page) ==
    CASE KindOf(page) \in {"A", "Flaky"} -> PageA
      [] KindOf(page) = "B" -> PageB
      [] KindOf(page) = "Bulk" -> PageBulk
      [] OTHER -> <<>>

(***************************************************************************)
(* Parser and transform                                                    *)
(***************************************************************************)
\* Parser.get_total_pages
get_total_pages_Uncapped(total_results) ==
    IF total_results >= 0 THEN (total_results + 19) \div 20 ELSE 1

get_total_pages(total_results) ==
    IF total_results >= 0
    THEN LET calculated_pages == (total_results + 19) \div 20
         IN  IF calculated_pages < MAX_PAGES_TO_FETCH THEN calculated_pages
             ELSE MAX_PAGES_TO_FETCH
    ELSE 1

\* ScrapedProperty (id is a str) of a listing, as parsed from a result page
ScrapedProperty(id, page, k) == [id |-> id, key |-> page * 1000 + k]

\* DaftScraper.transform_to_property_listing: the id of the PropertyListing
transform_id(id) == IF Len(id) > 0 /\ isdigit(id) THEN int(id) ELSE None

transform_to_property_listing(scraped_prop) ==
    [id |-> transform_id(scraped_prop.id), key |-> scraped_prop.key]

(***************************************************************************)
(* DaftScraper.scrape_all_pages and scrape_and_upload                      *)
(***************************************************************************)
\* The record a listing of a result page yields (the loop over
\* properties_on_page): with the JSON API the record parsed from the detail
\* JSON when there is one, in every other case the search record.
DetailedProperty(c, page, k, json) ==
    IF json /\ c.detail = "json_ok"
    THEN ScrapedProperty(c.jid, page, k)
    ELSE ScrapedProperty(c.id, page, k)

DetailedProperties(items, page, json) ==
    [k \in DOMAIN items |-> DetailedProperty(items[k], page, k, json)]

NoResult == [success |-> FALSE, message |-> "", count |-> -1]
Result(success, message, count) == [success |-> success, message |-> message, count |-> count]

\* "finally: self.fetcher.close()" ends scrape_and_upload;
\* scrape_limited_and_upload has no finally clause.
finally_close(m) == m = "scrape_and_upload"

\* The handler around the whole of scrape_and_upload and of
\* scrape_limited_and_upload:
\*   except Exception as e: return {"success": False, "message": str(e), "count": 0}
except_Exception_Reraise(e) == [raised |-> e]

except_Exception(e) == Result(FALSE, e, 0)

\* What a paging loop does, in order: the loop is entered, Delay(ms), the
\* request for a result page, a detail request for listing k of that page
LoopStart == [ev |-> "loop"]

PageFetch(page) == [ev |-> "page", page |-> page]

DetailFetch(k) == [ev |-> "detail", k |-> k]

\* The delay only from the third page on
inter_page_delay_FromThird(page) == IF page > 2 THEN <<Delay(1500)>> ELSE <<>>

\* Top of the loop body: "if current_page > 1: delay(1500)"
inter_page_delay(page) == IF page > 1 THEN <<Delay(1500)>> ELSE <<>>

\* The "try:" of listing k: delay(500), with the JSON API the request for the
\* detail JSON and, if that gave no record and did not raise, the request
\* for the detail page; without it the request for the detail page
detail_requests(c, k, json) ==
    IF json /\ c.detail \in {"html_ok", "html_empty", "html_raise"}
    THEN <<Delay(500), DetailFetch(k), DetailFetch(k)>>
    ELSE <<Delay(500), DetailFetch(k)>>

\* "for prop in properties_on_page" of scrape_all_pages, from listing k on
\* (the requests of the listings lo..hi, one listing after the other)
RECURSIVE RequestsFromTo(_, _, _, _)
RequestsFromTo(items, lo, hi, json) ==
    IF lo > hi THEN <<>>
    ELSE IF lo = hi THEN detail_requests(items[lo], lo, json)
    ELSE LET mid == (lo + hi) \div 2
         IN  RequestsFromTo(items, lo, mid, json) \o RequestsFromTo(items, mid + 1, hi, json)

PageRequests(items, k, json) == RequestsFromTo(items, k, Len(items), json)

\* "while current_page <= total_pages" has exited
PagingFinished_AfterFirstPage == current_page > 1

PagingFinished == current_page > total_pages

scrape_and_upload ==
    /\ pc = "idle"
    /\ both_pc = "none" \/ (both_pc \in {"rent", "sale"} /\ max_per_type = -1)
    /\ mode' = "scrape_and_upload"
    /\ pc' = "paging"
    /\ use_json_api' = TRUE
    /\ current_page' = 1
    /\ total_pages' = 1
    /\ all_properties' = <<>>
    /\ timeline' = Append(timeline, LoopStart)
    /\ UNCHANGED <<source, db, max_pages, existing_ids, processed_property_ids,
                   new_properties, i, total_inserted, result, pages_fetched,
                   snapshot_at, batches, returned, batch_failed, prev, closed, session_closed>>
    /\ UNCHANGED <<fetch_vars, both_vars, unit_vars>>

\* One iteration of "while current_page <= total_pages" of scrape_all_pages.
scrape_all_pages_step ==
    /\ mode = "scrape_and_upload"
    /\ pc = "paging"
    /\ ~PagingFinished
    /\ pages_fetched' = Append(pages_fetched, current_page)
    /\ timeline' = timeline \o inter_page_delay(current_page) \o <<PageFetch(current_page)>>
                    \o (IF ~PageFails(current_page)
                        THEN PageRequests(ItemsOf(current_page), 1, use_json_api)
                        ELSE IF use_json_api /\ current_page = 1
                        THEN <<LoopStart>>
                        ELSE <<>>)
    /\ IF PageFails(current_page)
       THEN \* except Exception: restart with the markup strategy, or skip the page
            IF use_json_api /\ current_page = 1
            THEN /\ use_json_api' = FALSE
                 /\ current_page' = 1
                 /\ total_pages' = 1
                 /\ all_properties' = <<>>
            ELSE /\ current_page' = current_page + 1
                 /\ UNCHANGED <<use_json_api, total_pages, all_properties>>
       ELSE /\ total_pages' = IF current_page = 1 THEN get_total_pages(source.total)
                              ELSE total_pages
            /\ all_properties' = all_properties \o
                   DetailedProperties(ItemsOf(current_page), current_page, use_json_api)
            /\ current_page' = current_page + 1
            /\ UNCHANGED use_json_api
    /\ UNCHANGED <<source, db, mode, pc, max_pages, existing_ids, processed_property_ids,
                   new_properties, i, total_inserted, result, snapshot_at, batches, returned,
                   batch_failed, prev, closed, session_closed>>
    /\ UNCHANGED <<fetch_vars, both_vars, unit_vars>>

\* new_properties = [prop for prop in property_listings if prop.id not in existing_ids]
NotIn_Unfiltered(listings, ids) == listings

NotIn(listings, ids) == SelectSeq(listings, LAMBDA prop : prop.id \notin ids)

\* scrape_and_upload after scrape_all_pages has returned: transform, the
\* snapshot of known ids, the filter.
scrape_and_upload_filter(db_ok) ==
    /\ mode = "scrape_and_upload"
    /\ pc = "paging"
    /\ PagingFinished
    /\ IF all_properties = <<>>
       THEN /\ result' = Result(FALSE, "No properties found", 0)
            /\ pc' = "done"
            /\ UNCHANGED <<existing_ids, snapshot_at, new_properties>>
       ELSE IF ~db_ok
       THEN \* get_existing_property_ids raises DatabaseException
            /\ result' = except_Exception("DatabaseException")
            /\ pc' = "done"
            /\ snapshot_at' = Len(pages_fetched)
            /\ UNCHANGED <<existing_ids, new_properties>>
       ELSE LET property_listings ==
                    [k \in DOMAIN all_properties |->
                        transform_to_property_listing(all_properties[k])]
                new == NotIn(property_listings, db)
            IN  /\ existing_ids' = db
                /\ snapshot_at' = Len(pages_fetched)
                /\ new_properties' = new
                /\ IF new = <<>>
                   THEN /\ result' = Result(TRUE, "No new properties to insert", 0)
                        /\ pc' = "done"
                   ELSE /\ result' = result
                        /\ pc' = "upsert"
    /\ i' = 0
    /\ total_inserted' = 0
    /\ UNCHANGED <<source, db, mode, max_pages, use_json_api, current_page, total_pages,
                   all_properties, processed_property_ids, pages_fetched, timeline, batches, returned,
                   batch_failed, prev>>
    /\ closed' = (pc' = "done" /\ finally_close(mode'))
    /\ session_closed' = (session_closed \/ closed')
    /\ UNCHANGED <<fetch_vars, both_vars, unit_vars>>

(***************************************************************************)
(* DaftScraper.scrape_limited_and_upload                                   *)
(***************************************************************************)
\* max_pages values tried; the largest exceeds MAX_PAGES_TO_FETCH
MaxPagesArg == 6
MaxPagesArgs == {1, MaxPagesArg}

scrape_limited_and_upload(pages, db_ok) ==
    /\ pc = "idle"
    /\ both_pc = "none" \/ (both_pc \in {"rent", "sale"} /\ max_per_type = pages)
    /\ mode' = "scrape_limited_and_upload"
    /\ max_pages' = pages
    /\ snapshot_at' = Len(pages_fetched)
    /\ IF db_ok
       THEN /\ existing_ids' = db
            /\ pc' = "paging"
            /\ UNCHANGED result
       ELSE /\ result' = except_Exception("DatabaseException")
            /\ pc' = "done"
            /\ UNCHANGED existing_ids
    /\ new_properties' = <<>>
    /\ processed_property_ids' = {}
    /\ current_page' = 1
    /\ timeline' = IF db_ok THEN Append(timeline, LoopStart) ELSE timeline
    /\ UNCHANGED <<source, db, use_json_api, total_pages, all_properties, i,
                   total_inserted, pages_fetched, batches, returned, batch_failed, prev>>
    /\ closed' = (pc' = "done" /\ finally_close(mode'))
    /\ session_closed' = (session_closed \/ closed')
    /\ UNCHANGED <<fetch_vars, both_vars, unit_vars>>

\* if listing.id and listing.id not in existing_ids and listing.id not in processed_property_ids
IsNew_NoIdCheck(listing, processed) ==
    /\ listing.id \notin existing_ids
    /\ listing.id \notin processed

IsNew_ProcessedAllowed(listing, processed) ==
    /\ listing.id # None /\ listing.id # 0
    /\ listing.id \notin existing_ids

IsNew(listing, processed) ==
    /\ listing.id # None /\ listing.id # 0
    /\ listing.id \notin existing_ids
    /\ listing.id \notin processed

\* The checks before the detail requests: prop.id is a str, the sets hold ints.
\*   if prop.id and prop.id in processed_property_ids: continue
\*   if prop.id and prop.id in existing_ids: continue
SkippedBeforeDetail(c, processed) ==
    \/ Len(c.id) > 0 /\ py_in(PyStr(c.id), processed)
    \/ Len(c.id) > 0 /\ py_in(PyStr(c.id), existing_ids)

\* The body of "for prop in properties_on_page" for the listings k.. of a
\* page; acc = [new |-> new_properties, processed |-> processed_property_ids].
RECURSIVE ProcessPage(_, _, _, _)
ProcessPage(items, page, k, acc) ==
    IF Len(acc.new) >= 0 /\ k > Len(items) THEN acc
    ELSE LET c == items[k]
             scraped == IF c.detail = "json_ok" THEN ScrapedProperty(c.jid, page, k)
                        ELSE ScrapedProperty(c.id, page, k)
             listing == transform_to_property_listing(scraped)
             next == IF \/ SkippedBeforeDetail(c, acc.processed)
                        \/ c.detail = "html_empty"
                        \/ ~IsNew(listing, acc.processed)
                     THEN acc
                     ELSE [acc EXCEPT !.new = Append(acc.new, listing),
                                      !.processed = acc.processed \cup {listing.id}]
             requests == IF SkippedBeforeDetail(c, acc.processed) THEN <<>>
                         ELSE detail_requests(c, k, TRUE)
         IN  ProcessPage(items, page, k + 1,
                         [next EXCEPT !.requests = acc.requests \o requests])

\* The same page again after a page without payload
after_page_error_Retry(page) == page

\* No payload ("current_page += 1; continue") or an exception in the loop
\* body ("except Exception: ... current_page += 1; continue")
after_page_error(page) == page + 1

\* One iteration of "while current_page <= max_pages".
scrape_limited_step ==
    /\ mode = "scrape_limited_and_upload"
    /\ pc = "paging"
    /\ current_page <= max_pages
    /\ pages_fetched' = Append(pages_fetched, current_page)
    /\ IF PageFails(current_page)
       THEN /\ timeline' = timeline \o inter_page_delay(current_page)
                                    \o <<PageFetch(current_page)>>
            /\ UNCHANGED <<new_properties, processed_property_ids>>
       ELSE LET acc == ProcessPage(ItemsOf(current_page), current_page, 1,
                                   [new |-> new_properties,
                                    processed |-> processed_property_ids,
                                    requests |-> <<>>])
            IN  /\ new_properties' = acc.new
                /\ processed_property_ids' = acc.processed
                /\ timeline' = timeline \o inter_page_delay(current_page)
                                        \o <<PageFetch(current_page)>> \o acc.requests
    /\ current_page' = IF PageFails(current_page) THEN after_page_error(current_page)
                       ELSE current_page + 1
    /\ UNCHANGED <<source, db, mode, pc, max_pages, use_json_api, total_pages,
                   all_properties, existing_ids, i, total_inserted, result, snapshot_at,
                   batches, returned, batch_failed, prev, closed, session_closed>>
    /\ UNCHANGED <<fetch_vars, both_vars, unit_vars>>

\* After the loop: "if not new_properties: return ..."
scrape_limited_after_paging ==
    /\ mode = "scrape_limited_and_upload"
    /\ pc = "paging"
    /\ current_page > max_pages
    /\ IF new_properties = <<>>
       THEN /\ result' = Result(TRUE, "No new properties to insert", 0)
            /\ pc' = "done"
       ELSE /\ result' = result
            /\ pc' = "upsert"
    /\ i' = 0
    /\ total_inserted' = 0
    /\ UNCHANGED <<source, db, mode, max_pages, use_json_api, current_page, total_pages,
                   all_properties, existing_ids, processed_property_ids, new_properties,
                   pages_fetched, timeline, snapshot_at, batches, returned, batch_failed, prev>>
    /\ closed' = (pc' = "done" /\ finally_close(mode'))
    /\ session_closed' = (session_closed \/ closed')
    /\ UNCHANGED <<fetch_vars, both_vars, unit_vars>>

(***************************************************************************)
(* Batching (both run modes) and SupabaseClient.upsert_properties_batch    *)
(***************************************************************************)
Min(a, b) == IF a < b THEN a ELSE b

\* upsert_properties_batch: the positions of the rows sent, a row whose id was
\* seen earlier in the batch left out ("if data.get('id') and data['id'] in seen_ids: continue")
data_list(batch) ==
    {k \in DOMAIN batch :
        ~(/\ batch[k].id # None /\ batch[k].id # 0
          /\ \E j \in 1..(k - 1) : batch[j].id = batch[k].id)}

\* One iteration of "for i in range(0, len(new_properties), batch_size)".
\* "except Exception as e: logger.error(...); continue": the loop goes on with
\* the next batch
after_batch_error_Abort(idx) == Len(new_properties)

after_batch_error(idx) == idx + batch_size

\* batch = new_properties[i:i + batch_size]
batch_slice_ToEnd(idx) == SubSeq(new_properties, idx + 1, Len(new_properties))

batch_slice(idx) == SubSeq(new_properties, idx + 1, Min(idx + batch_size, Len(new_properties)))

upsert_batch(ok) ==
    /\ pc = "upsert"
    /\ i < Len(new_properties)
    /\ LET batch == batch_slice(i)
       IN  /\ batches' = Append(batches, batch)
           /\ IF ok
              THEN /\ db' = db \cup {batch[k].id : k \in {j \in DOMAIN batch : batch[j].id # None}}
                   /\ total_inserted' = total_inserted + Cardinality(data_list(batch))
                   /\ returned' = Append(returned, Cardinality(data_list(batch)))
                   /\ i' = i + batch_size
                   /\ UNCHANGED batch_failed
              ELSE \* DatabaseException: logged, the loop continues
                   /\ batch_failed' = TRUE
                   /\ returned' = Append(returned, -1)
                   /\ i' = after_batch_error(i)
                   /\ UNCHANGED <<db, total_inserted>>
    /\ UNCHANGED <<source, mode, pc, max_pages, use_json_api, current_page, total_pages,
                   all_properties, existing_ids, processed_property_ids, new_properties,
                   result, pages_fetched, timeline, snapshot_at, prev, closed, session_closed>>
    /\ UNCHANGED <<fetch_vars, both_vars, unit_vars>>

\* After the last batch: the summary is returned.
return_summary ==
    /\ pc = "upsert"
    /\ i >= Len(new_properties)
    /\ result' = Result(TRUE, "Successfully scraped and uploaded", total_inserted)
    /\ pc' = "done"
    /\ UNCHANGED <<source, db, mode, max_pages, use_json_api, current_page, total_pages,
                   all_properties, existing_ids, processed_property_ids, new_properties, i,
                   total_inserted, pages_fetched, timeline, snapshot_at, batches, returned, batch_failed, prev>>
    /\ closed' = (pc' = "done" /\ finally_close(mode'))
    /\ session_closed' = (session_closed \/ closed')
    /\ UNCHANGED <<fetch_vars, both_vars, unit_vars>>

NoPrev == [mode |-> "none", max_pages |-> 0, clean |-> FALSE]

\* A request for both categories: scrape_both_rent_and_sale (no
\* max_properties) or the "both" branch of api.scrape_properties, which calls
\* scrape_limited_and_upload with max_per_type = request.max_properties // 2.
\* Both categories are served from the one source of the model.
NoResults == [rent |-> NoResult, sale |-> NoResult]

MaxPropertiesBoth == {3}

scrape_both_rent_and_sale ==
    /\ pc = "idle"
    /\ both_pc = "none"
    /\ both_pc' = "rent"
    /\ max_per_type' = -1
    /\ results' = NoResults
    /\ both_result' = NoResult
    /\ UNCHANGED <<run_vars, fetch_vars, unit_vars>>

scrape_properties_both(requested) ==
    /\ pc = "idle"
    /\ both_pc = "none"
    /\ both_pc' = "rent"
    /\ max_per_type' = requested \div 2
    /\ results' = NoResults
    /\ both_result' = NoResult
    /\ UNCHANGED <<run_vars, fetch_vars, unit_vars>>

\* What follows the rent run: the sale run, whatever rent_result is
after_rent_StopOnFailure(rent_result) == IF rent_result.success THEN "sale" ELSE "done"

after_rent(rent_result) == "sale"

\* total_count = rent_result.get('count', 0) + sale_result.get('count', 0)
BothResult(res) ==
    [success |-> TRUE, message |-> "Scraped total properties",
     count |-> res.rent.count + res.sale.count, details |-> res]

\* The combined dict has been returned to the caller of the request.
both_over ==
    /\ both_pc = "done"
    /\ both_pc' = "none"
    /\ max_per_type' = -1
    /\ results' = NoResults
    /\ both_result' = NoResult
    /\ UNCHANGED <<run_vars, fetch_vars, unit_vars>>

\* The run is over; nothing of it is kept but the rows in the store.
run_over ==
    /\ pc = "done"
    /\ prev' = IF result.success /\ ~batch_failed
                THEN [mode |-> mode, max_pages |-> max_pages, clean |-> TRUE]
                ELSE NoPrev
    /\ pc' = "idle"
    /\ mode' = "idle"
    /\ max_pages' = 0
    /\ use_json_api' = TRUE
    /\ current_page' = 0
    /\ total_pages' = 0
    /\ all_properties' = <<>>
    /\ existing_ids' = {}
    /\ processed_property_ids' = {}
    /\ new_properties' = <<>>
    /\ i' = 0
    /\ total_inserted' = 0
    /\ result' = NoResult
    /\ pages_fetched' = <<>>
    /\ timeline' = <<>>
    /\ snapshot_at' = -1
    /\ batches' = <<>>
    /\ returned' = <<>>
    /\ batch_failed' = FALSE
    /\ closed' = FALSE
    /\ UNCHANGED session_closed
    /\ CASE both_pc = "rent" ->
               /\ results' = [results EXCEPT !.rent = result]
               /\ both_pc' = after_rent(result)
               /\ UNCHANGED <<max_per_type, both_result>>
         [] both_pc = "sale" ->
               /\ results' = [results EXCEPT !.sale = result]
               /\ both_result' = BothResult(results')
               /\ both_pc' = "done"
               /\ UNCHANGED max_per_type
         [] OTHER -> UNCHANGED both_vars
    /\ UNCHANGED <<source, db>>
    /\ UNCHANGED <<fetch_vars, unit_vars>>

InitRun ==
    /\ source \in Sources
    /\ db = {}
    /\ mode = "idle"
    /\ pc = "idle"
    /\ max_pages = 0
    /\ use_json_api = TRUE
    /\ current_page = 0
    /\ total_pages = 0
    /\ all_properties = <<>>
    /\ existing_ids = {}
    /\ processed_property_ids = {}
    /\ new_properties = <<>>
    /\ i = 0
    /\ total_inserted = 0
    /\ result = NoResult
    /\ pages_fetched = <<>>
    /\ timeline = <<>>
    /\ snapshot_at = -1
    /\ batches = <<>>
    /\ returned = <<>>
    /\ batch_failed = FALSE
    /\ prev = NoPrev
    /\ closed = FALSE
    /\ session_closed = FALSE
    /\ both_pc = "none"
    /\ max_per_type = -1
    /\ results = NoResults
    /\ both_result = NoResult

(***************************************************************************)
(* Price strings: core.utils.parse_price and the price fields of           *)
(* DaftScraper.transform_to_property_listing                               *)
(***************************************************************************)
\* A price string is a sequence of characters, each a one-character string.
DigitChars == <<"0", "1", "2", "3", "4", "5", "6", "7", "8", "9">>

IsDigitChar(c) == \E d \in 1..10 : DigitChars[d] = c

DigitValue(c) == (CHOOSE d \in 1..10 : DigitChars[d] = c) - 1

\* The decimal digits of a non-negative int
RECURSIVE Dec(_)
Dec(n) == IF n < 10 THEN <<DigitChars[n + 1]>>
          ELSE Append(Dec(n \div 10), DigitChars[(n % 10) + 1])

\* The value of a string of at most nine decimal digits
RECURSIVE DecValue(_)
DecValue(s) == IF Len(s) = 0 THEN 0
               ELSE 10 * DecValue(SubSeq(s, 1, Len(s) - 1)) + DigitValue(s[Len(s)])

\* str.lower(), on the letters A..Z
LowerChar(c) ==
    LET upper == <<"A", "B", "C", "D", "E", "F", "G", "H", "I", "J", "K", "L", "M",
                   "N", "O", "P", "Q", "R", "S", "T", "U", "V", "W", "X", "Y", "Z">>
        lower_case == <<"a", "b", "c", "d", "e", "f", "g", "h", "i", "j", "k", "l", "m",
                        "n", "o", "p", "q", "r", "s", "t", "u", "v", "w", "x", "y", "z">>
    IN  IF \E a \in DOMAIN upper : upper[a] = c
        THEN lower_case[CHOOSE a \in DOMAIN upper : upper[a] = c]
        ELSE c

lower(s) == [k \in DOMAIN s |-> LowerChar(s[k])]

\* s[p:].startswith(sub), p counted from 1
StartsWithAt(s, p, sub) ==
    /\ p + Len(sub) - 1 <= Len(s)
    /\ \A k \in DOMAIN sub : s[p + k - 1] = sub[k]

\* "sub in s"
Contains(sub, s) == \E p \in 1..(Len(s) + 1) : StartsWithAt(s, p, sub)

\* The first position from p on that holds no white space (Len(s) + 1 if none)
SkipSpaces(s, p) ==
    CHOOSE q \in p..(Len(s) + 1) :
        /\ \A j \in p..(q - 1) : s[j] = " "
        /\ q = Len(s) + 1 \/ s[q] # " "

\* The alternatives of the period group, in the order of the pattern:
\*   (month|week|mth|wk|pm|p/m|pw|p/w|perweek)
PeriodWords ==
    << <<"m", "o", "n", "t", "h">>, <<"w", "e", "e", "k">>, <<"m", "t", "h">>,
       <<"w", "k">>, <<"p", "m">>, <<"p", "/", "m">>, <<"p", "w">>,
       <<"p", "/", "w">>, <<"p", "e", "r", "w", "e", "e", "k">> >>

\* The alternative that matches at position q: the first in the order of the
\* pattern, <<>> if none does
PeriodWordAt(s, q) ==
    IF \E a \in DOMAIN PeriodWords : StartsWithAt(s, q, PeriodWords[a])
    THEN PeriodWords[CHOOSE a \in DOMAIN PeriodWords :
                        /\ StartsWithAt(s, q, PeriodWords[a])
                        /\ \A b \in 1..(a - 1) : ~StartsWithAt(s, q, PeriodWords[b])]
    ELSE <<>>

\* re.search of
\*   (?:€\s*)?([\d,]+(?:\.\d{2})?)\s*(?:(?:per\s*)?(month|week|mth|wk|pm|p/m|pw|p/w|perweek))?
\* Everything after group 1 can match the empty string, so the leftmost match
\* takes the first run of digits and commas as group 1, greedily, then ".dd"
\* if it follows, then white space, then "per" and a period word or a period
\* word alone if one follows at once.
NoMatch == [matched |-> FALSE, group1 |-> <<>>, group2 |-> <<>>]

re_search(s) ==
    LET InRun(c) == IsDigitChar(c) \/ c = ","
    IN  IF ~\E k \in DOMAIN s : InRun(s[k]) THEN NoMatch
        ELSE
        LET d  == CHOOSE k \in DOMAIN s : InRun(s[k]) /\ \A j \in 1..(k - 1) : ~InRun(s[j])
            e  == CHOOSE k \in d..Len(s) :
                      /\ \A j \in d..k : InRun(s[j])
                      /\ k = Len(s) \/ ~InRun(s[k + 1])
            e2 == IF /\ e + 3 <= Len(s)
                     /\ s[e + 1] = "."
                     /\ IsDigitChar(s[e + 2]) /\ IsDigitChar(s[e + 3])
                  THEN e + 3 ELSE e
            q  == SkipSpaces(s, e2 + 1)
            afterPer == IF StartsWithAt(s, q, <<"p", "e", "r">>)
                        THEN PeriodWordAt(s, SkipSpaces(s, q + 3))
                        ELSE <<>>
        IN  [matched |-> TRUE,
             group1  |-> SubSeq(s, d, e2),
             group2  |-> IF afterPer # <<>> THEN afterPer ELSE PeriodWordAt(s, q)]

\* A float is kept as a number of cents; a decimal integer of more than
\* FloatMaxDigits digits is above the largest float and becomes inf.
FloatMaxDigits == 309

Finite(cents) == [kind |-> "float", cents |-> cents]
Inf == [kind |-> "inf", cents |-> 0]
NoValue == [kind |-> "None", cents |-> 0]
ValueError == [kind |-> "ValueError", cents |-> 0]

\* The digits of s without the leading zeros
RECURSIVE StripZeros(_)
StripZeros(s) == IF Len(s) > 0 /\ s[1] = "0" THEN StripZeros(Tail(s)) ELSE s

\* float(text) for a text of digits and dots: ValueError without a digit or
\* with more than one dot; the fraction is kept to the cent.
float(text) ==
    LET dots   == {k \in DOMAIN text : text[k] = "."}
        dot    == IF dots = {} THEN Len(text) + 1 ELSE CHOOSE k \in dots : TRUE
        whole  == StripZeros(SubSeq(text, 1, dot - 1))
        frac   == SubSeq(text, dot + 1, Len(text))
        frac2  == SubSeq(frac \o <<"0", "0">>, 1, 2)
    IN  IF Cardinality(dots) > 1 \/ Len(text) - Cardinality(dots) = 0 THEN ValueError
        ELSE IF Len(whole) > FloatMaxDigits THEN Inf
        ELSE Finite(100 * DecValue(whole) + DecValue(frac2))

\* round(x) of a fraction num / den: to the nearest int, a tie to the even one
round(num, den) ==
    LET q == num \div den
        r == num % den
    IN  IF 2 * r > den \/ (2 * r = den /\ q % 2 = 1) THEN q + 1 ELSE q

\* What parse_price gives back: a ParsedPriceResult, or the exception it raises
ParsedPriceResult(value, type) == [raised |-> "", value |-> value, type |-> type]
PriceRaised(exc) == [raised |-> exc, value |-> NoValue, type |-> ""]

\* period_word.startswith('week') or period_word.startswith('wk')
\*     or period_word in ['pw', 'p/w', 'perweek']
IsWeekly(period_word) ==
    \/ StartsWithAt(period_word, 1, <<"w", "e", "e", "k">>)
    \/ StartsWithAt(period_word, 1, <<"w", "k">>)
    \/ period_word \in {<<"p", "w">>, <<"p", "/", "w">>,
                        <<"p", "e", "r", "w", "e", "e", "k">>}

PriceOnApplication == <<"p", "r", "i", "c", "e", " ", "o", "n", " ",
                        "a", "p", "p", "l", "i", "c", "a", "t", "i", "o", "n">>
ContactAgent == <<"c", "o", "n", "t", "a", "c", "t", " ", "a", "g", "e", "n", "t">>
PerMonth == <<"p", "e", "r", " ", "m", "o", "n", "t", "h">>
PerWeek == <<"p", "e", "r", " ", "w", "e", "e", "k">>

\* The first block of parse_price ("if match and match.group(1)"): what it
\* returns or raises, NoValue of type "" if it falls through to the next block
FellThrough == ParsedPriceResult(NoValue, "")

parse_price_match(price_str_normalized) ==
    LET match == re_search(price_str_normalized)
        amount == float(SelectSeq(match.group1, LAMBDA c : c # ","))
        period_word == match.group2
    IN  IF ~match.matched THEN FellThrough
        ELSE IF amount = ValueError THEN FellThrough
        ELSE IF period_word # <<>>
        THEN IF IsWeekly(period_word)
             THEN \* amount = round((amount * 52) / 12); round(inf) raises
                  \* OverflowError; in cents, 52 / (12 * 100) = 13 / 300
                  IF amount = Inf THEN PriceRaised("OverflowError")
                  ELSE ParsedPriceResult(Finite(100 * round(amount.cents * 13, 300)), "numeric")
             ELSE ParsedPriceResult(amount, "numeric")
        ELSE IF Contains(<<"€">>, price_str_normalized)
        THEN ParsedPriceResult(amount, "numeric")
        ELSE FellThrough

\* The second block of parse_price (simple_numeric)
parse_price_simple(ps, price_str_normalized) ==
    LET simple_numeric == SelectSeq(ps, LAMBDA c : IsDigitChar(c) \/ c = ".")
        kept == SelectSeq(ps,
                          LAMBDA c : IsDigitChar(c) \/ c \in {"€", " ", ".", ","})
        potential_price == float(simple_numeric)
    IN  IF simple_numeric # <<>> /\ simple_numeric = kept
           /\ potential_price # ValueError
           /\ (potential_price = Inf \/ potential_price.cents >= 10000)
           /\ (\/ Contains(<<"€">>, price_str_normalized)
               \/ Contains(PerMonth, price_str_normalized)
               \/ Contains(PerWeek, price_str_normalized))
        THEN ParsedPriceResult(potential_price, "numeric")
        ELSE ParsedPriceResult(NoValue, "unknown")

\* An argument of parse_price: a str, or something that is not a str
PyPrice(s) == [is_str |-> TRUE, s |-> s]
NotAStr == [is_str |-> FALSE, s |-> <<>>]

parse_price(arg) ==
    IF ~arg.is_str \/ arg.s = <<>> THEN ParsedPriceResult(NoValue, "unknown")
    ELSE LET price_str_normalized == lower(arg.s)
         IN  IF \/ Contains(PriceOnApplication, price_str_normalized)
                \/ Contains(ContactAgent, price_str_normalized)
             THEN ParsedPriceResult(NoValue, "on_application")
             ELSE LET first == parse_price_match(price_str_normalized)
                  IN  IF first # FellThrough THEN first
                      ELSE parse_price_simple(arg.s, price_str_normalized)

\* transform_to_property_listing: price_period from the price string
price_period_of(ps) ==
    LET price_lower == lower(ps)
    IN  IF ps = <<>> THEN "None"
        ELSE IF \/ Contains(<<"w", "e", "e", "k">>, price_lower)
                \/ Contains(<<"p", "w">>, price_lower)
        THEN "week"
        ELSE IF \/ Contains(<<"m", "o", "n", "t", "h">>, price_lower)
                \/ Contains(<<"p", "m">>, price_lower)
        THEN "month"
        ELSE "None"

\* The price strings of the model: lead, currency symbol, number, cadence, tail.
MaxWeekly == 12

Huge == [k \in 1..(FloatMaxDigits + 1) |-> "9"]

Leads == {<<>>, <<",">>,
          <<"P", "r", "i", "c", "e", " ", "O", "n", " ",
            "A", "p", "p", "l", "i", "c", "a", "t", "i", "o", "n", " ">>,
          <<"c", "o", "n", "t", "a", "c", "t", " ", "a", "g", "e", "n", "t", " ">>}
Currencies == {<<>>, <<"€">>}
Numbers == {Dec(x) : x \in 1..MaxWeekly}
               \cup {<<>>, <<"4", "5", "0", ",", "0", "0", "0">>,
                     <<"9", "9", ".", "5", "0">>, Huge}
Cadences == {<<>>, <<" ">> \o PerWeek, <<" ">> \o PerMonth, <<"p", "w">>,
             <<" ", "p", "m">>, <<" ", "p", "/", "w">>, <<" ", "w", "k">>}
Tails == {<<>>, <<" ", "d", "e", "v", "e", "l", "o", "p", "m", "e", "n", "t">>,
          <<" ", "u", "p", "w", "a", "r", "d", "s">>}

PriceStrings ==
    {l \o c \o n \o k \o t :
        l \in Leads, c \in Currencies, n \in Numbers, k \in Cadences, t \in Tails}

NotCalled == [raised |-> "", value |-> NoValue, type |-> "not called"]
NotBuilt == [price_eur |-> NoValue, price_period |-> "not built"]

\* Parser._parse_property_element / parse_property_details_json:
\*   parsed_price_result = parse_price(price_string)
call_parse_price ==
    /\ parsed_price_result = NotCalled
    /\ parsed_price_result' = parse_price(price_string)
    /\ UNCHANGED <<price_string, listing_price>>
    /\ UNCHANGED <<fetch_vars, run_vars, both_vars, beds_vars, parse_vars, details_vars, json_vars, api_vars, pages_vars>>

\* DaftScraper.transform_to_property_listing, for the ScrapedProperty built
\* with that price string: price_eur = parsed_price, price_period
transform_price ==
    /\ parsed_price_result # NotCalled
    /\ parsed_price_result.raised = ""
    /\ price_string.is_str
    /\ listing_price = NotBuilt
    /\ listing_price' = [price_eur |-> parsed_price_result.value,
                         price_period |-> price_period_of(price_string.s)]
    /\ UNCHANGED <<price_string, parsed_price_result>>
    /\ UNCHANGED <<fetch_vars, run_vars, both_vars, beds_vars, parse_vars, details_vars, json_vars, api_vars, pages_vars>>

\* No price string is being parsed.
InitNoPrice ==
    /\ price_string = NotAStr
    /\ parsed_price_result = parse_price(NotAStr)
    /\ listing_price = NotBuilt

(***************************************************************************)
(* Bedroom strings: core.utils.parse_beds and the bedrooms field of        *)
(* DaftScraper.transform_to_property_listing                               *)
(***************************************************************************)
\* The position after the run of decimal digits that starts at p (p itself if
\* s[p] is no digit): \d+ is greedy, and in both patterns below what follows
\* cannot start with a digit, so nothing shorter than the whole run matches.
DigitRunEnd(s, p) ==
    CHOOSE e \in p..(Len(s) + 1) :
        /\ \A j \in p..(e - 1) : IsDigitChar(s[j])
        /\ e = Len(s) + 1 \/ ~IsDigitChar(s[e])

Studio == <<"s", "t", "u", "d", "i", "o">>
BedWord == <<"b", "e", "d">>

NoBedsMatch == [matched |-> FALSE, group1 |-> <<>>, group2 |-> <<>>]

\* (\d+)\s*(?:to|-)\s*(\d+)\s*bed matched from position p
RangeMatchAt(s, p) ==
    LET e1 == DigitRunEnd(s, p)
        q1 == SkipSpaces(s, e1)
        q2 == IF StartsWithAt(s, q1, <<"t", "o">>) THEN q1 + 2
              ELSE IF StartsWithAt(s, q1, <<"-">>) THEN q1 + 1
              ELSE 0
        q3 == SkipSpaces(s, q2)
        e2 == DigitRunEnd(s, q3)
        q4 == SkipSpaces(s, e2)
    IN  IF e1 > p /\ q2 > 0 /\ e2 > q3 /\ StartsWithAt(s, q4, BedWord)
        THEN [matched |-> TRUE, group1 |-> SubSeq(s, p, e1 - 1),
              group2 |-> SubSeq(s, q3, e2 - 1)]
        ELSE NoBedsMatch

\* (\d+)\s*bed matched from position p
SingleMatchAt(s, p) ==
    LET e1 == DigitRunEnd(s, p)
        q1 == SkipSpaces(s, e1)
    IN  IF e1 > p /\ StartsWithAt(s, q1, BedWord)
        THEN [matched |-> TRUE, group1 |-> SubSeq(s, p, e1 - 1), group2 |-> <<>>]
        ELSE NoBedsMatch

\* re.search: the match at the leftmost position that has one
range_match(s) ==
    IF \E p \in 1..Len(s) : RangeMatchAt(s, p).matched
    THEN RangeMatchAt(s, CHOOSE p \in 1..Len(s) :
                            /\ RangeMatchAt(s, p).matched
                            /\ \A r \in 1..(p - 1) : ~RangeMatchAt(s, r).matched)
    ELSE NoBedsMatch

single_match(s) ==
    IF \E p \in 1..Len(s) : SingleMatchAt(s, p).matched
    THEN SingleMatchAt(s, CHOOSE p \in 1..Len(s) :
                             /\ SingleMatchAt(s, p).matched
                             /\ \A r \in 1..(p - 1) : ~SingleMatchAt(s, r).matched)
    ELSE NoBedsMatch

\* int(text) of a run of decimal digits: the conversion raises ValueError
\* for more than IntMaxStrDigits digits (sys.int_info.default_max_str_digits).
IntMaxStrDigits == 4300
IntValueError == -1
int_of_digits(text) ==
    IF Len(text) > IntMaxStrDigits THEN IntValueError ELSE DecValue(text)

Max(a, b) == IF a >= b THEN a ELSE b

\* ParsedBedsResult(min, max, is_studio = False); parse_beds returns None
NoBeds == [is_none |-> TRUE, min |-> 0, max |-> 0, is_studio |-> FALSE]
ParsedBedsResult(min_beds, max_beds, is_studio) ==
    [is_none |-> FALSE, min |-> min_beds, max |-> max_beds, is_studio |-> is_studio]

\* parse_beds, from the single pattern on
parse_beds_single(bed_str_normalized) ==
    LET m == single_match(bed_str_normalized)
        num == int_of_digits(m.group1)
    IN  IF m.matched /\ num # IntValueError
        THEN ParsedBedsResult(num, num, FALSE)
        ELSE NoBeds

parse_beds(arg) ==
    IF ~arg.is_str \/ arg.s = <<>> THEN NoBeds
    ELSE LET bed_str_normalized == lower(arg.s)
             m == range_match(bed_str_normalized)
             min_beds == int_of_digits(m.group1)
             max_beds == int_of_digits(m.group2)
         IN  IF Contains(Studio, bed_str_normalized)
             THEN ParsedBedsResult(1, 1, TRUE)
             ELSE IF m.matched /\ min_beds # IntValueError /\ max_beds # IntValueError
             THEN ParsedBedsResult(Min(min_beds, max_beds), Max(min_beds, max_beds), FALSE)
             ELSE parse_beds_single(bed_str_normalized)

\* transform_to_property_listing:
\*   bedrooms = scraped_prop.parsed_beds.min if scraped_prop.parsed_beds else None
\* (a ParsedBedsResult is truthy whatever its fields); None is -1
bedrooms_of_Max(scraped_parsed_beds) ==
    IF scraped_parsed_beds.is_none THEN None ELSE scraped_parsed_beds.max
bedrooms_of(scraped_parsed_beds) ==
    IF scraped_parsed_beds.is_none THEN None ELSE scraped_parsed_beds.min

\* The bedroom strings of the model: lead, form, tail, for bed counts of
\* 0..MaxBeds and one count of two digits.
MaxBeds == 3
BedCounts == (0..MaxBeds) \cup {12}

ToBed(n, m) == Dec(n) \o <<" ", "t", "o", " ">> \o Dec(m) \o <<" ", "B", "e", "d">>
DashBed(n, m) == Dec(n) \o <<"-">> \o Dec(m) \o <<" ", "B", "e", "d">>
OneBed(n) == Dec(n) \o <<" ", "b", "e", "d">>

BedStrings ==
    LET leads == {<<>>, <<"S", "t", "u", "d", "i", "o", " ">>,
                  <<"S", "T", "U", "D", "I", "O", ",", " ">>, <<"f", "r", "o", "m", " ">>}
        forms == UNION {{ToBed(n, m), DashBed(n, m), OneBed(n),
                         Dec(n) \o <<"B", "E", "D">>,
                         Dec(n) \o <<" ", "-", " ">> \o Dec(m) \o <<"b", "e", "d">>,
                         Dec(n) \o <<" ", "b", "a", "t", "h">>,
                         Dec(n) \o <<" ", "t", "o", " ">> \o Dec(m),
                         Dec(n), <<"B", "e", "d">>, <<>>} : n \in BedCounts, m \in BedCounts}
        tails == {<<>>, <<"s">>, <<" ", "s", "t", "u", "d", "i", "o">>}
    IN  {l \o f \o t : l \in leads, f \in forms, t \in tails}

BedsNotCalled == [is_none |-> TRUE, min |-> -2, max |-> -2, is_studio |-> FALSE]
BedroomsNotBuilt == -2

\* Parser._parse_property_element / parse_property_details_json:
\*   parsed_beds = parse_beds(beds_string)
call_parse_beds ==
    /\ parsed_beds = BedsNotCalled
    /\ parsed_beds' = parse_beds(bed_string)
    /\ UNCHANGED <<bed_string, listing_bedrooms>>
    /\ UNCHANGED <<fetch_vars, run_vars, both_vars, price_vars, parse_vars, details_vars, json_vars, api_vars, pages_vars>>

\* DaftScraper.transform_to_property_listing, for the ScrapedProperty built
\* with that result
transform_beds ==
    /\ parsed_beds # BedsNotCalled
    /\ listing_bedrooms = BedroomsNotBuilt
    /\ listing_bedrooms' = bedrooms_of(parsed_beds)
    /\ UNCHANGED <<bed_string, parsed_beds>>
    /\ UNCHANGED <<fetch_vars, run_vars, both_vars, price_vars, parse_vars, details_vars, json_vars, api_vars, pages_vars>>

\* No bedroom string is being parsed.
InitNoBeds ==
    /\ bed_string = NotAStr
    /\ parsed_beds = parse_beds(NotAStr)
    /\ listing_bedrooms = bedrooms_of(parse_beds(NotAStr))

(***************************************************************************)
(* Parser.parse_search_results and Parser.parse_next_data_search_results   *)
(***************************************************************************)
\* The __NEXT_DATA__ payload of a result page, by what the code can tell apart:
\*   invalid_json           json.loads raises JSONDecodeError
\*   not_object             valid JSON that is no object ([], null, 5, "x")
\*   props_not_object       {"props": null} and the like
\*   pageProps_not_object   {"props": {"pageProps": []}} and the like
\*   listings_not_iterable  ...{"listings": 5}
\*   object                 an object of the expected shape; "listings" is
\*                          the list in field listings (empty: missing or [])
PayloadShapes == {"invalid_json", "not_object", "props_not_object",
                  "pageProps_not_object", "listings_not_iterable", "object"}

\* An element of "listings":
\*   ok           {"listing": {...}} that parse_property_details_json turns
\*                into a ScrapedProperty
\*   not_dict     no object: item.get raises AttributeError
\*   no_listing   an object without "listing", or with an empty one
\*   bad_listing  {"listing": ...} for which parse_property_details_json
\*                returns None (it catches what its body raises)
ItemKinds == {"ok", "not_dict", "no_listing", "bad_listing"}

\* A card element [data-testid="card-container"] of the markup:
\*   ok       _parse_property_element returns a ScrapedProperty
\*   no_link  the card has no <a href>: None
\*   raises   its body raises, which it catches: None
CardKinds == {"ok", "no_link", "raises"}

MaxItems == 3
MaxCards == 2

SeqsUpTo(S, n) == UNION {[1..k -> S] : k \in 0..n}

\* html of a result page: the script tag, its payload, the cards
Html(script, shape, listings, cards) ==
    [script |-> script, shape |-> shape, listings |-> listings, cards |-> cards]

NoHtml == Html("absent", "object", <<>>, <<>>)

Htmls ==
    {Html(script, "object", <<>>, cards) :
        script \in {"absent", "empty"}, cards \in SeqsUpTo(CardKinds, MaxCards)}
    \cup {Html("present", shape, <<>>, cards) :
        shape \in PayloadShapes, cards \in SeqsUpTo(CardKinds, MaxCards)}
    \cup {Html("present", "object", listings, cards) :
        listings \in SeqsUpTo(ItemKinds, MaxItems), cards \in SeqsUpTo(CardKinds, MaxCards)}

\* next_data as fetch_search_results_json returns it: parsed JSON
NextDatas ==
    {Html("present", shape, <<>>, <<>>) : shape \in PayloadShapes \ {"invalid_json"}}
    \cup {Html("present", "object", listings, <<>>) :
        listings \in SeqsUpTo(ItemKinds, MaxItems)}

\* The ScrapedProperty parsed from element k by one of the two strategies
FromNextData(k) == [strategy |-> "next_data", k |-> k]
FromMarkup(k) == [strategy |-> "markup", k |-> k]

ParseRunning == [raised |-> "", returned |-> FALSE, properties |-> <<>>]
ParseReturns(props) == [raised |-> "", returned |-> TRUE, properties |-> props]
ParseRaises(exc) == [raised |-> exc, returned |-> FALSE, properties |-> <<>>]

\* data.get("props", {}).get("pageProps", {}).get("listings", []) and
\* len(raw_listings): what it raises, "" if nothing
raw_listings_error(shape) ==
    CASE shape \in {"not_object", "props_not_object", "pageProps_not_object"}
            -> "AttributeError"
      [] shape = "listings_not_iterable" -> "TypeError"
      [] OTHER -> ""

\* except json.JSONDecodeError (parse_search_results): is exc caught?
except_JSONDecodeError(exc) == exc = "JSONDecodeError"

\* Parser.parse_search_results(html), up to the loop over the listings or
\* over the cards
parse_search_results(html) ==
    /\ parse_pc = "idle"
    /\ parse_fn' = "parse_search_results"
    /\ parse_arg' = html
    /\ properties' = <<>>
    /\ item_idx' = 1
    /\ LET exc == IF html.shape = "invalid_json" THEN "JSONDecodeError"
                  ELSE raw_listings_error(html.shape)
       IN  IF html.script = "present" /\ exc # "" /\ ~except_JSONDecodeError(exc)
           THEN /\ parse_pc' = "done"
                /\ parse_result' = ParseRaises(exc)
           ELSE /\ parse_pc' = IF html.script = "present" /\ exc = ""
                                  /\ html.listings # <<>>
                               THEN "listings" ELSE "cards"
                /\ parse_result' = ParseRunning
    /\ UNCHANGED <<fetch_vars, run_vars, both_vars, price_vars, beds_vars, details_vars, json_vars, api_vars, pages_vars>>

\* Parser.parse_next_data_search_results(next_data), up to the loop
parse_next_data_search_results(next_data) ==
    /\ parse_pc = "idle"
    /\ parse_fn' = "parse_next_data_search_results"
    /\ parse_arg' = next_data
    /\ properties' = <<>>
    /\ item_idx' = 1
    /\ IF raw_listings_error(next_data.shape) # "" \/ next_data.listings = <<>>
       THEN /\ parse_pc' = "done"
            /\ parse_result' = ParseReturns(<<>>)
       ELSE /\ parse_pc' = "listings"
            /\ parse_result' = ParseRunning
    /\ UNCHANGED <<fetch_vars, run_vars, both_vars, price_vars, beds_vars, details_vars, json_vars, api_vars, pages_vars>>

\* except Exception as e: ...; continue (both loops): the next element
after_item_error_Break(k, n) == n + 1
after_item_error(k, n) == k + 1

\* One iteration of "for item in raw_listings" (27-37, 371-381), and the
\* return that follows the last one
parse_listing_item ==
    /\ parse_pc = "listings"
    /\ LET item == parse_arg.listings[item_idx]
           n == Len(parse_arg.listings)
       IN  /\ properties' = IF item = "ok" THEN Append(properties, FromNextData(item_idx))
                            ELSE properties
           /\ item_idx' = IF item = "not_dict" THEN after_item_error(item_idx, n) ELSE item_idx + 1
           /\ IF item_idx' > n
              THEN /\ parse_pc' = "done"
                   /\ parse_result' = ParseReturns(properties')
              ELSE UNCHANGED <<parse_pc, parse_result>>
    /\ UNCHANGED <<parse_fn, parse_arg>>
    /\ UNCHANGED <<fetch_vars, run_vars, both_vars, price_vars, beds_vars, details_vars, json_vars, api_vars, pages_vars>>

\* One iteration of "for element in property_elements" (47-54), and the
\* return that follows the last one (at once if there is no card)
parse_card ==
    /\ parse_pc = "cards"
    /\ LET n == Len(parse_arg.cards)
       IN  /\ properties' = IF item_idx <= n /\ parse_arg.cards[item_idx] = "ok"
                            THEN Append(properties, FromMarkup(item_idx))
                            ELSE properties
           /\ item_idx' = IF item_idx <= n THEN item_idx + 1 ELSE item_idx
           /\ IF item_idx' > n
              THEN /\ parse_pc' = "done"
                   /\ parse_result' = ParseReturns(properties')
              ELSE UNCHANGED <<parse_pc, parse_result>>
    /\ UNCHANGED <<parse_fn, parse_arg>>
    /\ UNCHANGED <<fetch_vars, run_vars, both_vars, price_vars, beds_vars, details_vars, json_vars, api_vars, pages_vars>>

\* No page is being parsed.
InitNoParse ==
    /\ parse_fn = "none"
    /\ parse_arg = NoHtml
    /\ parse_pc = "idle"
    /\ properties = <<>>
    /\ item_idx = 1
    /\ parse_result = ParseRunning

(***************************************************************************)
(* Parser.parse_property_details: the detail page merged into a candidate  *)
(***************************************************************************)
\* A coordinate is a number or None; ber is a string, "None" for None.
Coordinates == {53, 54}
BerValues == {"", "A1", "B2"}

\* The ScrapedProperty of the search-page pass: latitude, longitude, ber and
\* the other fields (id, url, address, price and bed fields, image, date)
Candidates ==
    [latitude : Coordinates \cup {None}, longitude : Coordinates \cup {None},
     ber : BerValues \cup {"None"}, others : {"as parsed from the search page"}]

\* The detail markup, by what parse_property_details reads of it:
\*   lat_lng   what extract_lat_lng returns for div.sc-eb305aa9-35.jfAOAq,
\*             found FALSE if it returns None (no element, no link)
\*   ber_text  aria-label or text of the first BER element that has one,
\*             "None" if there is none
DetailHtmls ==
    [lat_lng : [found : {TRUE}, lat : Coordinates, lng : Coordinates]
                  \cup {[found |-> FALSE, lat |-> None, lng |-> None]},
     ber_text : {"None", "BER A1", "BER B2", "BER ", "SI_666"}]

NoDetailHtml == [lat_lng |-> [found |-> FALSE, lat |-> None, lng |-> None],
                 ber_text |-> "not fetched"]

\* core.utils.format_ber of a non-empty text: 'BER ' removed, stripped,
\* 'SI_666' becomes 'Exempt'
format_ber(ber_text) ==
    CASE ber_text = "BER A1" -> "A1"
      [] ber_text = "BER B2" -> "B2"
      [] ber_text = "BER " -> ""
      [] ber_text = "SI_666" -> "Exempt"

\* if not property_data.ber
ber_missing(ber) == ber \in {"None", ""}

parse_property_details(html) ==
    /\ detail_html = NoDetailHtml
    /\ detail_html' = html
    /\ property_before' = property_data
    /\ property_data' =
           [property_data EXCEPT
               !.latitude = IF html.lat_lng.found THEN html.lat_lng.lat ELSE @,
               !.longitude = IF html.lat_lng.found THEN html.lat_lng.lng ELSE @,
               !.ber = IF ber_missing(@) /\ html.ber_text # "None"
                       THEN format_ber(html.ber_text) ELSE @]
    /\ UNCHANGED <<fetch_vars, run_vars, both_vars, price_vars, beds_vars, parse_vars, json_vars, api_vars, pages_vars>>

\* No detail page is being merged.
InitNoDetails ==
    /\ property_data = [latitude |-> None, longitude |-> None, ber |-> "None",
                        others |-> "as parsed from the search page"]
    /\ property_before = property_data
    /\ detail_html = NoDetailHtml

(***************************************************************************)
(* Fetcher.fetch_search_results_json, get_build_id, build_property_api_url *)
(***************************************************************************)
\* The answer to session.get(url): the request raises (conn_error), the
\* status is an error (raise_for_status raises), or a body arrives whose
\* __NEXT_DATA__ payload, if it is an object, has the buildId build_id
\* ("None": no such key).
Responses ==
    [outcome : {"conn_error", "http_error"}, body : {NoHtml}, build_id : {"None"}]
    \cup [outcome : {"200"}, body : NextDatas, build_id : {"None", "", "b1"}]
    \cup [outcome : {"200"}, body : {Html(script, "object", <<>>, <<>>) :
                                        script \in {"absent", "empty"}},
          build_id : {"None"}]

NoResponse == [outcome |-> "none", body |-> NoHtml, build_id |-> "None"]

FallbackBuildId == "eYQ3CuRxzsMJz17gSBSMk"

\* How a call ended: the value returned, or the exception raised
NdReturns(value) == [raised |-> "", value |-> value]
NdRaises(exc) == [raised |-> exc, value |-> "None"]

\* What the body of both functions raises before it has the parsed payload,
\* "" if nothing: the request, raise_for_status, json.loads
request_error(resp) ==
    CASE resp.outcome = "conn_error" -> "ConnectionError"
      [] resp.outcome = "http_error" -> "HTTPError"
      [] resp.body.script = "present" /\ resp.body.shape = "invalid_json"
            -> "JSONDecodeError"
      [] OTHER -> ""

\* Fetcher.fetch_search_results_json: None without the marker, the payload
\* with it; "except Exception: return None" around all of it
fetch_search_results_json(resp) ==
    /\ nd_fn = "none"
    /\ nd_fn' = "fetch_search_results_json"
    /\ response' = resp
    /\ nd_result' = IF request_error(resp) # "" \/ resp.body.script # "present"
                    THEN NdReturns("None")
                    ELSE NdReturns("data")
    /\ UNCHANGED <<json_listing, enhanced_property>>
    /\ UNCHANGED <<fetch_vars, run_vars, both_vars, price_vars, beds_vars, parse_vars,
                   details_vars, api_vars, pages_vars>>

\* Fetcher.get_build_id:
\*   except (ScrapingException, NetworkException): raise
\*   except Exception: return the hardcoded identifier
get_build_id_result(resp) ==
    IF request_error(resp) # "" THEN NdReturns(FallbackBuildId)
    ELSE IF resp.body.script # "present" THEN NdRaises("ScrapingException")
    ELSE IF resp.body.shape = "not_object" THEN NdReturns(FallbackBuildId)
    ELSE IF resp.build_id \in {"None", ""} THEN NdRaises("ScrapingException")
    ELSE NdReturns(resp.build_id)

get_build_id(resp) ==
    /\ nd_fn = "none"
    /\ nd_fn' = "get_build_id"
    /\ response' = resp
    /\ nd_result' = get_build_id_result(resp)
    /\ UNCHANGED <<json_listing, enhanced_property>>
    /\ UNCHANGED <<fetch_vars, run_vars, both_vars, price_vars, beds_vars, parse_vars,
                   details_vars, api_vars, pages_vars>>

\* Fetcher.build_property_api_url: "try: build_id = self.get_build_id()
\* except: build_id = <hardcoded>"; the value is the identifier in the URL
build_id_or_fallback_Propagate(r) == r
build_id_or_fallback(r) == IF r.raised # "" THEN NdReturns(FallbackBuildId) ELSE r

build_property_api_url(resp) ==
    /\ nd_fn = "none"
    /\ nd_fn' = "build_property_api_url"
    /\ response' = resp
    /\ nd_result' = build_id_or_fallback(get_build_id_result(resp))
    /\ UNCHANGED <<json_listing, enhanced_property>>
    /\ UNCHANGED <<fetch_vars, run_vars, both_vars, price_vars, beds_vars, parse_vars,
                   details_vars, api_vars, pages_vars>>

(***************************************************************************)
(* Parser.parse_property_details_json: the coordinates                     *)
(***************************************************************************)
\* listing["point"]["coordinates"] has at most MaxCoordinates + 1 entries.
MaxCoordinates == 2

\* Numbers a payload gives as coordinates: the equator or the prime meridian,
\* and a place in Ireland.
JsonNumbers == {0, 53, -6}

RECURSIVE NumberLists(_)
NumberLists(n) ==
    IF n = 0 THEN {<<>>}
    ELSE LET shorter == NumberLists(n - 1)
         IN  shorter \cup {Append(l, x) : l \in {t \in shorter : Len(t) = n - 1},
                                          x \in JsonNumbers}

\* The listing of a payload, by what the function reads for the coordinates:
\*   has_point, coordinates   "point" is a key; point.get('coordinates', [])
\*   has_location, lat, lon   "location" is a key; location.get('lat'),
\*                            location.get('lon'), None where the key is missing
Listings ==
    [has_point : BOOLEAN, coordinates : NumberLists(MaxCoordinates),
     has_location : BOOLEAN, lat : JsonNumbers \cup {None}, lon : JsonNumbers \cup {None}]

NoListing == [has_point |-> FALSE, coordinates |-> <<>>, has_location |-> FALSE,
              lat |-> None, lon |-> None]
NoProperty == [latitude |-> None, longitude |-> None, returned |-> FALSE]

\* "x if x else None" of a number or None: None and 0 are false
\* (float(x) of a number is that number)
float_if_truthy(x) == IF x # None /\ x # 0 THEN x ELSE None

\* latitude, longitude before the ScrapedProperty is built:
\*   if 'point' in listing: coordinates[0] is the longitude, [1] the latitude
\*   elif 'location' in listing: lat and lon
read_coordinates(listing) ==
    IF listing.has_point
    THEN IF Len(listing.coordinates) >= 2
         THEN [latitude |-> listing.coordinates[2], longitude |-> listing.coordinates[1]]
         ELSE [latitude |-> None, longitude |-> None]
    ELSE IF listing.has_location
    THEN [latitude |-> listing.lat, longitude |-> listing.lon]
    ELSE [latitude |-> None, longitude |-> None]

parse_property_details_json(listing) ==
    /\ json_listing = NoListing
    /\ enhanced_property = NoProperty
    /\ ~listing.has_point => listing.coordinates = <<>>
    /\ ~listing.has_location => (listing.lat = None /\ listing.lon = None)
    /\ json_listing' = listing
    /\ enhanced_property' =
           [latitude |-> float_if_truthy(read_coordinates(listing).latitude),
            longitude |-> float_if_truthy(read_coordinates(listing).longitude),
            returned |-> TRUE]
    /\ UNCHANGED <<nd_fn, response, nd_result>>
    /\ UNCHANGED <<fetch_vars, run_vars, both_vars, price_vars, beds_vars, parse_vars,
                   details_vars, api_vars, pages_vars>>

\* No structured-data request is being made.
\* scrape_limited_pages is not called
InitNoPages ==
    /\ max_properties = 0
    /\ properties_scraped = 0
    /\ properties_on_page = <<>>
    /\ detailed_properties = <<>>

\* No request has reached the REST API
InitNoApi ==
    /\ lifespan_state = "startup"
    /\ supabase_configured = TRUE
    /\ handled = <<>>
    /\ session_requests = <<>>

InitNoJson ==
    /\ nd_fn = "none"
    /\ response = NoResponse
    /\ nd_result = NdReturns("None")
    /\ json_listing = NoListing
    /\ enhanced_property = NoProperty

(***************************************************************************)
(* Specifications                                                          *)
(***************************************************************************)
\* One fetch call at a time, in a deployment with any retry budget; the
\* orchestrator stays idle.
InitFetchOnly ==
    /\ InitFetch
    /\ InitRun
    /\ InitNoPrice
    /\ InitNoBeds
    /\ InitNoParse
    /\ InitNoDetails
    /\ InitNoJson
    /\ InitNoApi
    /\ InitNoPages
    /\ source = [kinds |-> [p \in 1..MaxUpPages |-> "A"], total |-> -1]
    /\ db = {}

NextFetch ==
    \/ \E fn \in {"fetch_page_html", "fetch_json_api"}, pn \in {0, 1} : fetch_start(fn, pn)
    \/ \E outcome \in Outcomes, main_ok \in BOOLEAN : fetch_attempt(outcome, main_ok)
    \/ fetch_end

SpecFetch == InitFetchOnly /\ [][NextFetch]_vars

\* Runs of the orchestrator, one after the other, against a source.
Init ==
    /\ InitFetch
    /\ MAX_FETCH_RETRIES = 2
    /\ utils_importable = TRUE
    /\ InitRun
    /\ InitNoPrice
    /\ InitNoBeds
    /\ InitNoParse
    /\ InitNoDetails
    /\ InitNoJson
    /\ InitNoApi
    /\ InitNoPages

Next ==
    \/ scrape_and_upload
    \/ scrape_all_pages_step
    \/ \E db_ok \in BOOLEAN : scrape_and_upload_filter(db_ok)
    \/ \E pages \in MaxPagesArgs, db_ok \in BOOLEAN : scrape_limited_and_upload(pages, db_ok)
    \/ scrape_limited_step
    \/ scrape_limited_after_paging
    \/ \E ok \in BOOLEAN : upsert_batch(ok)
    \/ return_summary
    \/ run_over

Spec == Init /\ [][Next]_vars

\* One call of scrape_all_pages against any source, its loop going on while
\* it can: it is sequential code, no iteration waits for anything but its own
\* requests and delays, which all return or raise.
NextTerm ==
    \/ scrape_and_upload
    \/ scrape_all_pages_step

SpecTerm == Init /\ [][NextTerm]_vars /\ WF_vars(scrape_all_pages_step)

\* The same runs, and requests for both categories.
NextBoth ==
    \/ Next
    \/ scrape_both_rent_and_sale
    \/ \E requested \in MaxPropertiesBoth : scrape_properties_both(requested)
    \/ both_over

SpecBoth == Init /\ [][NextBoth]_vars

(***************************************************************************)
(* DaftScraper.scrape_limited_pages                                        *)
(***************************************************************************)
MaxProperties == 5

\* paging.get("totalPages", 1) of the first payload
TotalPagesUpstream == {1, MaxUpPages + 1}

\* "while current_page <= total_pages and properties_scraped < max_properties"
limited_pages_loop_NoLimit == current_page <= total_pages

limited_pages_loop ==
    current_page <= total_pages /\ properties_scraped < max_properties

\* properties_on_page[:remaining_properties], each listing with its position
first_properties(items, remaining) ==
    [k \in 1..Min(Len(items), remaining) |-> [c |-> items[k], k |-> k]]

scrape_limited_pages(limit) ==
    /\ pc = "idle"
    /\ mode' = "scrape_limited_pages"
    /\ pc' = "paging"
    /\ max_properties' = limit
    /\ current_page' = 1
    /\ total_pages' = 1
    /\ all_properties' = <<>>
    /\ properties_scraped' = 0
    /\ timeline' = Append(timeline, LoopStart)
    /\ UNCHANGED <<properties_on_page, detailed_properties>>
    /\ UNCHANGED <<source, db, max_pages, use_json_api, existing_ids, processed_property_ids,
                   new_properties, i, total_inserted, result, pages_fetched, snapshot_at,
                   batches, returned, batch_failed, prev, closed, session_closed>>
    /\ UNCHANGED <<fetch_vars, both_vars, price_vars, beds_vars, parse_vars, details_vars,
                   json_vars, api_vars>>

\* The loop body up to "for prop in properties_on_page". No payload, or an
\* exception before the inner loop (except Exception of the page): the
\* counter advances and the loop continues.
limited_pages_fetch(total_pages_upstream) ==
    /\ mode = "scrape_limited_pages"
    /\ pc = "paging"
    /\ limited_pages_loop
    /\ pages_fetched' = Append(pages_fetched, current_page)
    /\ timeline' = timeline \o inter_page_delay(current_page) \o <<PageFetch(current_page)>>
    /\ IF PageFails(current_page)
       THEN /\ current_page' = after_page_error(current_page)
            /\ UNCHANGED <<pc, total_pages, properties_on_page, detailed_properties>>
       ELSE /\ total_pages' = IF current_page # 1 THEN total_pages
                              ELSE IF source.total > 0 THEN total_pages_upstream
                              ELSE 1
            /\ properties_on_page' = first_properties(ItemsOf(current_page),
                                                      max_properties - properties_scraped)
            /\ detailed_properties' = <<>>
            /\ pc' = "details"
            /\ UNCHANGED current_page
    /\ UNCHANGED <<max_properties, properties_scraped>>
    /\ UNCHANGED <<source, db, mode, max_pages, use_json_api, all_properties, existing_ids,
                   processed_property_ids, new_properties, i, total_inserted, result,
                   snapshot_at, batches, returned, batch_failed, prev, closed, session_closed>>
    /\ UNCHANGED <<fetch_vars, both_vars, price_vars, beds_vars, parse_vars, details_vars,
                   json_vars, api_vars>>

\* One iteration of "for prop in properties_on_page": with a url and room
\* left, every way through the try and its except appends one record and
\* counts it
limited_pages_listing(has_url) ==
    /\ mode = "scrape_limited_pages"
    /\ pc = "details"
    /\ properties_on_page # <<>>
    /\ LET prop == Head(properties_on_page)
       IN  IF has_url /\ properties_scraped < max_properties
           THEN /\ detailed_properties' =
                       Append(detailed_properties,
                              DetailedProperty(prop.c, current_page, prop.k, TRUE))
                /\ properties_scraped' = properties_scraped + 1
                /\ timeline' = timeline \o detail_requests(prop.c, prop.k, TRUE)
           ELSE UNCHANGED <<detailed_properties, properties_scraped, timeline>>
    /\ properties_on_page' = Tail(properties_on_page)
    /\ UNCHANGED max_properties
    /\ UNCHANGED <<source, db, mode, pc, max_pages, use_json_api, current_page, total_pages,
                   all_properties, existing_ids, processed_property_ids, new_properties, i,
                   total_inserted, result, pages_fetched, snapshot_at, batches, returned,
                   batch_failed, prev, closed, session_closed>>
    /\ UNCHANGED <<fetch_vars, both_vars, price_vars, beds_vars, parse_vars, details_vars,
                   json_vars, api_vars>>

\* After the inner loop: all_properties.extend(detailed_properties); current_page += 1
limited_pages_extend ==
    /\ mode = "scrape_limited_pages"
    /\ pc = "details"
    /\ properties_on_page = <<>>
    /\ all_properties' = all_properties \o detailed_properties
    /\ current_page' = current_page + 1
    /\ pc' = "paging"
    /\ UNCHANGED pages_vars
    /\ UNCHANGED <<source, db, mode, max_pages, use_json_api, total_pages, existing_ids,
                   processed_property_ids, new_properties, i, total_inserted, result,
                   pages_fetched, timeline, snapshot_at, batches, returned, batch_failed,
                   prev, closed, session_closed>>
    /\ UNCHANGED <<fetch_vars, both_vars, price_vars, beds_vars, parse_vars, details_vars,
                   json_vars, api_vars>>

\* The loop has exited: return all_properties
limited_pages_return ==
    /\ mode = "scrape_limited_pages"
    /\ pc = "paging"
    /\ ~limited_pages_loop
    /\ pc' = "returned"
    /\ UNCHANGED pages_vars
    /\ UNCHANGED <<source, db, mode, max_pages, use_json_api, current_page, total_pages,
                   all_properties, existing_ids, processed_property_ids, new_properties, i,
                   total_inserted, result, pages_fetched, timeline, snapshot_at, batches,
                   returned, batch_failed, prev, closed, session_closed>>
    /\ UNCHANGED <<fetch_vars, both_vars, price_vars, beds_vars, parse_vars, details_vars,
                   json_vars, api_vars>>

\* One call of scrape_limited_pages, or the paging loop of one call of
\* scrape_limited_and_upload
NextPages ==
    \/ \E limit \in {0, 2, MaxProperties} : scrape_limited_pages(limit)
    \/ \E total_pages_upstream \in TotalPagesUpstream : limited_pages_fetch(total_pages_upstream)
    \/ \E has_url \in BOOLEAN : limited_pages_listing(has_url)
    \/ limited_pages_extend
    \/ limited_pages_return
    \/ \E pages \in MaxPagesArgs, db_ok \in BOOLEAN : scrape_limited_and_upload(pages, db_ok)
    \/ scrape_limited_step
    \/ scrape_limited_after_paging

SpecPages == Init /\ [][NextPages]_vars

\* One price string from the listing page to the PropertyListing; nothing
\* else runs.
InitPrice ==
    /\ InitFetch
    /\ MAX_FETCH_RETRIES = 2
    /\ utils_importable = TRUE
    /\ InitRun
    /\ source = [kinds |-> [p \in 1..MaxUpPages |-> "A"], total |-> -1]
    /\ price_string \in {PyPrice(s) : s \in PriceStrings} \cup {NotAStr}
    /\ parsed_price_result = NotCalled
    /\ listing_price = NotBuilt
    /\ InitNoBeds
    /\ InitNoParse
    /\ InitNoDetails
    /\ InitNoJson
    /\ InitNoApi
    /\ InitNoPages

NextPrice ==
    \/ call_parse_price
    \/ transform_price

SpecPrice == InitPrice /\ [][NextPrice]_vars

\* One bedroom string from the listing page to the PropertyListing; nothing
\* else runs.
InitBeds ==
    /\ InitFetch
    /\ MAX_FETCH_RETRIES = 2
    /\ utils_importable = TRUE
    /\ InitRun
    /\ source = [kinds |-> [p \in 1..MaxUpPages |-> "A"], total |-> -1]
    /\ InitNoPrice
    /\ bed_string \in {PyPrice(s) : s \in BedStrings} \cup {NotAStr}
    /\ parsed_beds = BedsNotCalled
    /\ listing_bedrooms = BedroomsNotBuilt
    /\ InitNoParse
    /\ InitNoDetails
    /\ InitNoJson
    /\ InitNoApi
    /\ InitNoPages

NextBeds ==
    \/ call_parse_beds
    \/ transform_beds

SpecBeds == InitBeds /\ [][NextBeds]_vars

\* One result page parsed by either function; nothing else runs.
InitParse ==
    /\ InitFetch
    /\ MAX_FETCH_RETRIES = 2
    /\ utils_importable = TRUE
    /\ InitRun
    /\ source = [kinds |-> [p \in 1..MaxUpPages |-> "A"], total |-> -1]
    /\ InitNoPrice
    /\ InitNoBeds
    /\ InitNoParse
    /\ InitNoDetails
    /\ InitNoJson
    /\ InitNoApi
    /\ InitNoPages

NextParse ==
    \/ \E html \in Htmls : parse_search_results(html)
    \/ \E next_data \in NextDatas : parse_next_data_search_results(next_data)
    \/ parse_listing_item
    \/ parse_card

SpecParse == InitParse /\ [][NextParse]_vars

\* One candidate of the search-page pass and the detail page merged into it;
\* nothing else runs.
InitDetails ==
    /\ InitFetch
    /\ MAX_FETCH_RETRIES = 2
    /\ utils_importable = TRUE
    /\ InitRun
    /\ source = [kinds |-> [p \in 1..MaxUpPages |-> "A"], total |-> -1]
    /\ InitNoPrice
    /\ InitNoBeds
    /\ InitNoParse
    /\ property_data \in Candidates
    /\ property_before = property_data
    /\ detail_html = NoDetailHtml
    /\ InitNoJson
    /\ InitNoApi
    /\ InitNoPages

NextDetails == \E html \in DetailHtmls : parse_property_details(html)

SpecDetails == InitDetails /\ [][NextDetails]_vars

\* One structured-data request of the Fetcher; nothing else runs.
NextJson ==
    \/ \E resp \in Responses : fetch_search_results_json(resp)
    \/ \E resp \in Responses : get_build_id(resp)
    \/ \E resp \in Responses : build_property_api_url(resp)

SpecJson == InitParse /\ [][NextJson]_vars

\* One parse of a property-details payload; nothing else runs.
NextCoordinates == \E listing \in Listings : parse_property_details_json(listing)

SpecCoordinates == InitParse /\ [][NextCoordinates]_vars

(***************************************************************************)
(* REST API: POST /scrape and POST /scrape/async of one server process     *)
(***************************************************************************)
MaxRequests == 2

\* ScrapingRequest.validate_location: valid_locations
valid_locations ==
    {<<"d", "u", "b", "l", "i", "n">>,
     <<"d", "u", "b", "l", "i", "n", "-", "c", "i", "t", "y">>,
     <<"c", "o", "r", "k">>,
     <<"c", "o", "r", "k", "-", "c", "i", "t", "y">>,
     <<"g", "a", "l", "w", "a", "y">>,
     <<"g", "a", "l", "w", "a", "y", "-", "c", "i", "t", "y">>,
     <<"l", "i", "m", "e", "r", "i", "c", "k">>,
     <<"l", "i", "m", "e", "r", "i", "c", "k", "-", "c", "i", "t", "y">>,
     <<"w", "a", "t", "e", "r", "f", "o", "r", "d">>,
     <<"w", "a", "t", "e", "r", "f", "o", "r", "d", "-", "c", "i", "t", "y">>}

\* JSON bodies a client posts; max_properties None where the field is absent.
\* The bodies that do not validate are the one of test_scraping_validation
\* and two with a single invalid field.
Bodies ==
    LET Cork == <<"C", "o", "r", "k">>
        invalid_location == <<"i", "n", "v", "a", "l", "i", "d", "_",
                              "l", "o", "c", "a", "t", "i", "o", "n">>
    IN  [listing_type : {"rent", "both"}, location : {Cork}, max_properties : {None, 3}]
        \cup {[listing_type |-> "invalid_type", location |-> invalid_location,
                max_properties |-> None],
               [listing_type |-> "invalid_type", location |-> Cork, max_properties |-> None],
               [listing_type |-> "rent", location |-> invalid_location,
                max_properties |-> None]}

\* ScrapingRequest with listing_type: str and without validate_location
ScrapingRequest_Unvalidated(body) ==
    [valid |-> \/ body.max_properties = None
               \/ body.max_properties >= 1 /\ body.max_properties <= 1000,
     listing_type |-> body.listing_type,
     location |-> body.location,
     max_properties |-> body.max_properties]

\* Pydantic validation of the body against ScrapingRequest: listing_type is a
\* Literal, location passes validate_location, which lower-cases it, and
\* max_properties is absent or within ge=1, le=1000
ScrapingRequest(body) ==
    [valid |-> /\ body.listing_type \in {"rent", "sale", "both"}
               /\ lower(body.location) \in valid_locations
               /\ \/ body.max_properties = None
                  \/ body.max_properties >= 1 /\ body.max_properties <= 1000,
     listing_type |-> body.listing_type,
     location |-> lower(body.location),
     max_properties |-> body.max_properties]

\* One call of an operation of the DaftScraper with its arguments; max_pages
\* None for the operations that take no page budget
OrchestratorCall(op, listing_type, location, pages) ==
    [op |-> op, listing_type |-> listing_type, location |-> location, max_pages |-> pages]

\* scrape_properties: the calls it makes on the scraper, in order
scrape_properties_calls(request) ==
    IF request.max_properties # None /\ request.max_properties # 0
    THEN IF request.listing_type = "both"
         THEN LET per_type == request.max_properties \div 2
              IN  <<OrchestratorCall("scrape_limited_and_upload", "rent",
                                     request.location, per_type),
                    OrchestratorCall("scrape_limited_and_upload", "sale",
                                     request.location, per_type)>>
         ELSE <<OrchestratorCall("scrape_limited_and_upload", request.listing_type,
                                 request.location, request.max_properties)>>
    ELSE IF request.listing_type = "both"
         THEN <<OrchestratorCall("scrape_both_rent_and_sale", "both",
                                 request.location, None)>>
         ELSE <<OrchestratorCall("scrape_and_upload", request.listing_type,
                                 request.location, None)>>

\* perform_scraping_task with the whole page budget for each type
perform_scraping_task_calls_Unsplit(request) ==
    IF request.max_properties # None /\ request.max_properties # 0
    THEN IF request.listing_type = "both"
         THEN <<OrchestratorCall("scrape_limited_and_upload", "rent",
                                 request.location, request.max_properties),
                OrchestratorCall("scrape_limited_and_upload", "sale",
                                 request.location, request.max_properties)>>
         ELSE <<OrchestratorCall("scrape_limited_and_upload", request.listing_type,
                                 request.location, request.max_properties)>>
    ELSE IF request.listing_type = "both"
         THEN <<OrchestratorCall("scrape_both_rent_and_sale", "both",
                                 request.location, None)>>
         ELSE <<OrchestratorCall("scrape_and_upload", request.listing_type,
                                 request.location, None)>>

\* perform_scraping_task: the calls it makes on the scraper, in order
perform_scraping_task_calls(request) ==
    IF request.max_properties # None /\ request.max_properties # 0
    THEN IF request.listing_type = "both"
         THEN LET max_per_type_task == request.max_properties \div 2
              IN  <<OrchestratorCall("scrape_limited_and_upload", "rent",
                                     request.location, max_per_type_task),
                    OrchestratorCall("scrape_limited_and_upload", "sale",
                                     request.location, max_per_type_task)>>
         ELSE <<OrchestratorCall("scrape_limited_and_upload", request.listing_type,
                                 request.location, request.max_properties)>>
    ELSE IF request.listing_type = "both"
         THEN <<OrchestratorCall("scrape_both_rent_and_sale", "both",
                                 request.location, None)>>
         ELSE <<OrchestratorCall("scrape_and_upload", request.listing_type,
                                 request.location, None)>>

\* The requests one call of an operation of the scraper issues on the session
\* of the shared Fetcher: a result page, then the detail of a listing
CallFetches == <<"page", "detail">>

\* Only perform_scraping_task is a coroutine function
runs_on_event_loop_SyncEndpoints(fn) == fn = "perform_scraping_task"

\* The three functions are declared async def: the server awaits them on its
\* event loop, where a function declared def would go to a worker thread
runs_on_event_loop(fn) ==
    fn \in {"scrape_properties", "scrape_properties_async", "perform_scraping_task"}

\* Nothing declared async def is between its first and its last statement:
\* the scraper blocks (requests, time.sleep), so such a function keeps the
\* event loop until it returns
loop_free ==
    \A k \in DOMAIN handled :
        handled[k].phase \in {"running", "in_request"} => ~runs_on_event_loop(handled[k].fn)

ScrapingResponse(status, success, count) ==
    [status |-> status, success |-> success, count |-> count]

NoHttpResponse == ScrapingResponse(0, FALSE, 0)

\* What the server keeps of one POST request
Handled(endpoint, body, fn, phase, http_response, calls) ==
    [endpoint |-> endpoint, body |-> body, fn |-> fn, phase |-> phase,
     http_response |-> http_response,
     invoked |-> IF calls = <<>> THEN <<>> ELSE <<Head(calls)>>,
     todo |-> IF calls = <<>> THEN <<>> ELSE Tail(calls),
     step |-> 0, fetches |-> 0, failure |-> ""]

\* lifespan, startup half: SupabaseClient() raises ConfigurationException
\* without the credentials and lifespan re-raises, so the server never serves
lifespan ==
    /\ lifespan_state = "startup"
    /\ lifespan_state' = IF supabase_configured THEN "serving" ELSE "failed"
    /\ UNCHANGED <<supabase_configured, handled, session_requests>>
    /\ UNCHANGED <<fetch_vars, run_vars, both_vars, price_vars, beds_vars, parse_vars,
                   details_vars, json_vars, pages_vars>>

\* The body does not validate as a ScrapingRequest: the framework answers 422
\* and does not call the endpoint function
request_validation_error(endpoint, body) ==
    /\ lifespan_state = "serving"
    /\ loop_free
    /\ Len(handled) < MaxRequests
    /\ ~ScrapingRequest(body).valid
    /\ handled' = Append(handled, Handled(endpoint, body, "none", "rejected",
                                          ScrapingResponse(422, FALSE, 0), <<>>))
    /\ UNCHANGED <<lifespan_state, supabase_configured, session_requests>>
    /\ UNCHANGED <<fetch_vars, run_vars, both_vars, price_vars, beds_vars, parse_vars,
                   details_vars, json_vars, pages_vars>>

\* POST /scrape, to its first call on the scraper
scrape_properties(body) ==
    /\ lifespan_state = "serving"
    /\ loop_free
    /\ Len(handled) < MaxRequests
    /\ ScrapingRequest(body).valid
    /\ handled' = Append(handled,
          IF ~supabase_configured
          THEN \* ConfigurationException, answered by its handler
               [Handled("/scrape", body, "scrape_properties", "done",
                        ScrapingResponse(500, FALSE, 0), <<>>)
                    EXCEPT !.failure = "raised"]
          ELSE Handled("/scrape", body, "scrape_properties", "running", NoHttpResponse,
                       scrape_properties_calls(ScrapingRequest(body))))
    /\ UNCHANGED <<lifespan_state, supabase_configured, session_requests>>
    /\ UNCHANGED <<fetch_vars, run_vars, both_vars, price_vars, beds_vars, parse_vars,
                   details_vars, json_vars, pages_vars>>

\* POST /scrape/async: add_task, then the response; the framework runs the
\* task once the response is sent
scrape_properties_async(body) ==
    /\ lifespan_state = "serving"
    /\ loop_free
    /\ Len(handled) < MaxRequests
    /\ ScrapingRequest(body).valid
    /\ handled' = Append(handled,
          Handled("/scrape/async", body, "perform_scraping_task", "queued",
                  ScrapingResponse(200, TRUE, 0), <<>>))
    /\ UNCHANGED <<lifespan_state, supabase_configured, session_requests>>
    /\ UNCHANGED <<fetch_vars, run_vars, both_vars, price_vars, beds_vars, parse_vars,
                   details_vars, json_vars, pages_vars>>

\* perform_scraping_task, to its first call on the scraper
perform_scraping_task(k) ==
    /\ handled[k].phase = "queued"
    /\ loop_free
    /\ LET calls == perform_scraping_task_calls(ScrapingRequest(handled[k].body))
       IN  handled' = [handled EXCEPT ![k].phase = "running",
                                      ![k].invoked = <<Head(calls)>>,
                                      ![k].todo = Tail(calls)]
    /\ UNCHANGED <<lifespan_state, supabase_configured, session_requests>>
    /\ UNCHANGED <<fetch_vars, run_vars, both_vars, price_vars, beds_vars, parse_vars,
                   details_vars, json_vars, pages_vars>>

\* The call in progress sends its next request: self.session.get(...)
session_get(k) ==
    /\ handled[k].phase = "running"
    /\ handled[k].step < Len(CallFetches)
    /\ handled' = [handled EXCEPT ![k].phase = "in_request",
                                  ![k].fetches = @ + 1]
    /\ session_requests' = Append(session_requests,
                                  [run |-> k, kind |-> CallFetches[handled[k].step + 1]])
    /\ UNCHANGED <<lifespan_state, supabase_configured>>
    /\ UNCHANGED <<fetch_vars, run_vars, both_vars, price_vars, beds_vars, parse_vars,
                   details_vars, json_vars, pages_vars>>

\* ... and the request is over
session_get_returns(k) ==
    /\ handled[k].phase = "in_request"
    /\ handled' = [handled EXCEPT ![k].phase = "running", ![k].step = @ + 1]
    /\ session_requests' = SelectSeq(session_requests, LAMBDA r : r.run # k)
    /\ UNCHANGED <<lifespan_state, supabase_configured>>
    /\ UNCHANGED <<fetch_vars, run_vars, both_vars, price_vars, beds_vars, parse_vars,
                   details_vars, json_vars, pages_vars>>

\* The call on the scraper returns its result dict: the next call, or the end
\* of the function (the ScrapingResponse of scrape_properties, the log line of
\* perform_scraping_task)
call_returns(k) ==
    /\ handled[k].phase = "running"
    /\ handled[k].step = Len(CallFetches)
    /\ handled' =
          IF handled[k].todo # <<>>
          THEN [handled EXCEPT ![k].invoked = Append(@, Head(handled[k].todo)),
                               ![k].todo = Tail(@),
                               ![k].step = 0]
          ELSE [handled EXCEPT ![k].phase = "done",
                               ![k].http_response =
                                   IF handled[k].fn = "scrape_properties"
                                   THEN ScrapingResponse(200, TRUE, 0)
                                   ELSE @]
    /\ UNCHANGED <<lifespan_state, supabase_configured, session_requests>>
    /\ UNCHANGED <<fetch_vars, run_vars, both_vars, price_vars, beds_vars, parse_vars,
                   details_vars, json_vars, pages_vars>>

\* An Exception leaves the call on the scraper. scrape_properties: except
\* Exception raises ScrapingException, which scraping_exception_handler
\* answers with 400. perform_scraping_task: except Exception logs it.
call_raises(k) ==
    /\ handled[k].phase = "running"
    /\ handled' =
          IF handled[k].fn = "scrape_properties"
          THEN [handled EXCEPT ![k].phase = "done",
                               ![k].failure = "raised",
                               ![k].http_response = ScrapingResponse(400, FALSE, 0)]
          ELSE [handled EXCEPT ![k].phase = "done", ![k].failure = "caught"]
    /\ UNCHANGED <<lifespan_state, supabase_configured, session_requests>>
    /\ UNCHANGED <<fetch_vars, run_vars, both_vars, price_vars, beds_vars, parse_vars,
                   details_vars, json_vars, pages_vars>>

InitApi ==
    /\ InitFetch
    /\ MAX_FETCH_RETRIES = 2
    /\ utils_importable = TRUE
    /\ InitRun
    /\ source = [kinds |-> [p \in 1..MaxUpPages |-> "A"], total |-> -1]
    /\ InitNoPrice
    /\ InitNoBeds
    /\ InitNoParse
    /\ InitNoDetails
    /\ InitNoJson
    /\ lifespan_state = "startup"
    /\ supabase_configured \in BOOLEAN
    /\ handled = <<>>
    /\ session_requests = <<>>
    /\ InitNoPages

NextApi ==
    \/ lifespan
    \/ \E endpoint \in {"/scrape", "/scrape/async"}, body \in Bodies :
           request_validation_error(endpoint, body)
    \/ \E body \in Bodies : scrape_properties(body)
    \/ \E body \in Bodies : scrape_properties_async(body)
    \/ \E k \in DOMAIN handled : perform_scraping_task(k)
    \/ \E k \in DOMAIN handled : session_get(k)
    \/ \E k \in DOMAIN handled : session_get_returns(k)
    \/ \E k \in DOMAIN handled : call_returns(k)
    \/ \E k \in DOMAIN handled : call_raises(k)

SpecApi == InitApi /\ [][NextApi]_vars

(***************************************************************************)
(* Properties of one fetch call (checked under SpecFetch)                  *)
(***************************************************************************)
NumGets == Cardinality({n \in DOMAIN fetch_log : fetch_log[n] = GetUrl})

\* The log from the first request to the url on (the warm-up of result page 1
\* comes before it).
FirstGet == CHOOSE n \in DOMAIN fetch_log :
                fetch_log[n] = GetUrl /\ \A j \in 1..(n - 1) : fetch_log[j] # GetUrl
FromFirstGet == IF NumGets = 0 THEN <<>> ELSE SubSeq(fetch_log, FirstGet, Len(fetch_log))

\* k requests to the url with a delay of ms between every two of them and
\* nothing after the last.
Alternating(k, ms) == [n \in 1..(2 * k - 1) |-> IF n % 2 = 1 THEN GetUrl ELSE Delay(ms)]

AllAre(seq, k, outcome) == Len(seq) = k /\ \A n \in 1..k : seq[n] = outcome

Ended == fetch_result.kind \in {"returned", "raised"}

\* C7 (as claimed): one call issues at most MAX_FETCH_RETRIES requests to the url.
C7_AtMostMaxRetriesRequests ==
    fetch_fn # "none" => NumGets <= MAX_FETCH_RETRIES

\* C7 (amended): one call issues at most MAX_FETCH_RETRIES + 1 requests to the
\* url; while it runs, the requests made are one fewer than the attempt about
\* to start, and the call has ended with a body or an error once the
\* (MAX_FETCH_RETRIES + 1)-th request has been answered.
C7_AttemptCeiling ==
    fetch_fn # "none" =>
        /\ NumGets <= MAX_FETCH_RETRIES + 1
        /\ NumGets = Len(responses)
        /\ fetch_result.kind = "running" =>
               (attempt = NumGets + 1 /\ attempt <= MAX_FETCH_RETRIES + 1)
        /\ NumGets = MAX_FETCH_RETRIES + 1 => Ended

\* A call that used the whole budget: MAX_FETCH_RETRIES + 1 requests, ended.
C7_Witness ==
    /\ fetch_fn # "none"
    /\ MAX_FETCH_RETRIES >= 1
    /\ NumGets = MAX_FETCH_RETRIES + 1
    /\ fetch_result.kind = "raised"

\* C8: if the endpoint answers 403 on the first N-1 attempts and 200 on the
\* N-th (N = MAX_FETCH_RETRIES), the fetch goes on after each 403 and returns
\* the body after exactly N requests, with a delay of 2 * RETRY_DELAY_MS
\* before each re-attempt.
C8_Succeeds403ThenOk ==
    (fetch_fn # "none" /\ MAX_FETCH_RETRIES >= 1) =>
        LET N == MAX_FETCH_RETRIES IN
        /\ \A k \in 1..(N - 1) :
               AllAre(responses, k, "403") => fetch_result.kind = "running"
        /\ (/\ Len(responses) = N
            /\ AllAre(SubSeq(responses, 1, N - 1), N - 1, "403")
            /\ responses[N] = "200")
           => /\ fetch_result.kind = "returned"
              /\ NumGets = N
              /\ FromFirstGet = Alternating(N, RETRY_DELAY_MS * 2)

\* C9: if the endpoint answers 403 on every attempt, the fetch goes on after
\* each 403 that leaves a retry and ends by raising RateLimitException with
\* retry_after = 2 * RETRY_DELAY_MS; a delay of 2 * RETRY_DELAY_MS separates
\* every two consecutive attempts and no delay follows the last attempt.
C9_RateLimitedAfterAll403 ==
    fetch_fn # "none" =>
        /\ \A k \in 1..MAX_FETCH_RETRIES :
               AllAre(responses, k, "403") => fetch_result.kind = "running"
        /\ AllAre(responses, MAX_FETCH_RETRIES + 1, "403")
           => /\ fetch_result.kind = "raised"
              /\ fetch_result.exc = "RateLimitException"
              /\ fetch_result.retry_after = 2 * RETRY_DELAY_MS
              /\ FromFirstGet = Alternating(MAX_FETCH_RETRIES + 1, RETRY_DELAY_MS * 2)

\* C10: a 404 response ends the call at that request: no further request and
\* no delay follows it, the error raised is the ScrapingException carrying the
\* url (not an error of the retry handlers), and a 404 on the first attempt
\* means exactly one request to the url, whatever MAX_FETCH_RETRIES is.
C10_NotFoundFailsImmediately ==
    \A n \in DOMAIN responses :
        responses[n] = "404" =>
            /\ n = Len(responses)
            /\ NumGets = n
            /\ fetch_log[Len(fetch_log)] = GetUrl
            /\ \A j \in DOMAIN FromFirstGet :
                   FromFirstGet[j].ev = "delay" => j < Len(FromFirstGet)
            /\ fetch_result.kind = "raised"
            /\ fetch_result.exc = "ScrapingException"
            /\ fetch_result.url
            /\ n = 1 => (NumGets = 1 /\ FromFirstGet = <<GetUrl>>)

\* A 404 on the first attempt of a call that had retries left.
C10_Witness ==
    /\ fetch_fn # "none"
    /\ MAX_FETCH_RETRIES >= 2
    /\ responses = <<"404">>
    /\ fetch_result.kind = "raised"

\* C11: if every attempt times out, the fetch goes on after each timeout that
\* leaves a retry, waits exactly RETRY_DELAY_MS between consecutive attempts
\* and ends by raising NetworkException with timeout = True and the number of
\* attempts made in its details; no delay follows the last attempt.
C11_TimeoutsExhaustRetries ==
    fetch_fn # "none" =>
        /\ \A k \in 1..MAX_FETCH_RETRIES :
               AllAre(responses, k, "timeout") => fetch_result.kind = "running"
        /\ AllAre(responses, MAX_FETCH_RETRIES + 1, "timeout")
           => /\ fetch_result.kind = "raised"
              /\ fetch_result.exc = "NetworkException"
              /\ fetch_result.timeout = TRUE
              /\ fetch_result.attempt = MAX_FETCH_RETRIES + 1
              /\ FromFirstGet = Alternating(MAX_FETCH_RETRIES + 1, RETRY_DELAY_MS)

(***************************************************************************)
(* Properties of the runs (checked under Spec)                             *)
(***************************************************************************)
\* The positions <<b, k>> of the records passed to upsert_properties_batch
Passed == {bk \in (DOMAIN batches) \X (1..batch_size) : bk[2] <= Len(batches[bk[1]])}
Rec(bk) == batches[bk[1]][bk[2]]

\* The positions of the rows upsert_properties_batch sends to the store
Sent == UNION {{<<b, k>> : k \in data_list(batches[b])} : b \in DOMAIN batches}

PagesFetched == {pages_fetched[k] : k \in DOMAIN pages_fetched}

\* The ids (as PropertyListing ids) of the listings the fetched pages served
ServedIds ==
    {transform_id(IF c.detail = "json_ok" /\ use_json_api THEN c.jid ELSE c.id) :
        c \in UNION {{ItemsOf(p)[k] : k \in DOMAIN ItemsOf(p)} : p \in PagesFetched}}

\* C1: in both run modes, no record whose id is in the known-id set returned
\* by get_existing_property_ids in this run is in a batch passed to
\* upsert_properties_batch.
C1_NoKnownIdInBatch ==
    \A bk \in Passed : Rec(bk).id \notin existing_ids

\* A run that was served listings it already knew and upserts others.
C1_Witness ==
    /\ batches # <<>>
    /\ ServedIds \cap existing_ids # {}

\* C2: across all batches of a run each non-null listing id is upserted at
\* most once (the rows a batch drops as duplicates of an earlier row of the
\* same batch are not counted).
C2_EachIdAtMostOnce ==
    LET WithId == {bk \in Sent : Rec(bk).id # None}
    IN  Cardinality({Rec(bk).id : bk \in WithId}) = Cardinality(WithId)

\* C3: every record passed to upsert_properties_batch has a non-null id, in
\* scrape_and_upload as well as in scrape_limited_and_upload.
C3_NoNullIdInBatch ==
    \A bk \in Passed : Rec(bk).id # None

C5_SecondRunUpsertsNothing ==
    (mode # "idle" /\ prev.clean /\ prev.mode = mode /\ prev.max_pages = max_pages) =>
        /\ batches = <<>>
        /\ pc = "done" => result.count = 0

\* C6: in every run mode the number of distinct result pages a run fetches is
\* at most MAX_PAGES_TO_FETCH.
C6_AtMostMaxPagesFetched ==
    Cardinality(PagesFetched) <= MAX_PAGES_TO_FETCH

\* The rows returned by the calls of upsert_properties_batch that did not raise
RECURSIVE SumRows(_)
SumRows(seq) ==
    IF seq = <<>> THEN 0
    ELSE (IF Head(seq) >= 0 THEN Head(seq) ELSE 0) + SumRows(Tail(seq))

\* The b-th slice of batch_size records of new_properties
SliceOf(b) ==
    SubSeq(new_properties, (b - 1) * batch_size + 1, Min(b * batch_size, Len(new_properties)))

\* C12: whether or not upsert_properties_batch raises for some batches, the
\* b-th call is passed the b-th slice of new_properties (so every batch is
\* passed exactly once and a failed batch is not retried), and the run returns
\* success = true with count = the sum of the row counts returned by the
\* calls that did not raise.
C12_BatchFailureIsolation ==
    (mode # "idle" /\ batches # <<>>) =>
        /\ Len(returned) = Len(batches)
        /\ \A b \in DOMAIN batches : batches[b] = SliceOf(b)
        /\ pc = "done" =>
               /\ Len(batches) = (Len(new_properties) + batch_size - 1) \div batch_size
               /\ result.success = TRUE
               /\ result.count = SumRows(returned)

\* A run of three batches whose second batch failed and whose others did not.
C12_Witness ==
    /\ pc = "done"
    /\ Len(returned) = 3
    /\ returned[1] > 0 /\ returned[2] = -1 /\ returned[3] > 0

\* C13: a POST /scrape for one category with max_properties = M runs
\* scrape_limited_and_upload with max_pages = M; the run keeps at most M new
\* records, passes at most M records to upsert_properties_batch and reports
\* a count of at most M.
C13_AtMostMaxPropertiesNew ==
    mode = "scrape_limited_and_upload" =>
        /\ Len(new_properties) <= max_pages
        /\ Cardinality(Passed) <= max_pages
        /\ pc = "done" => result.count <= max_pages

\* C14: if the first request for result page 1 fails or returns no payload,
\* the run is aborted: it fetches no result page other than page 1 and
\* returns success = false, in both run modes.
C14_AbortsWhenFirstPageFails ==
    (mode # "idle" /\ pages_fetched # <<>> /\ KindOf(1) \in {"Fail", "Flaky"}) =>
        /\ PagesFetched = {1}
        /\ pc = "done" => result.success = FALSE

\* C17: when a run ends, with success or with failure, Fetcher.close has been
\* called on the session the run used, in both run modes.
C17_SessionClosedAtEnd ==
    pc = "done" => closed

(***************************************************************************)
(* Properties of a request for both categories (checked under SpecBoth)    *)
(***************************************************************************)
\* C15: when both categories are requested, the rent run comes first and the
\* sale run is started after it whatever the rent result; the combined
\* result carries both per-category results under details, and its count is
\* the sum of their counts.
C15_SaleRunsAfterRent ==
    /\ both_pc = "rent" => results = NoResults
    /\ both_pc = "sale" => (results.rent # NoResult /\ results.sale = NoResult)
    /\ both_pc = "done" =>
           /\ results.rent # NoResult
           /\ results.sale # NoResult
           /\ both_result.details = results
           /\ both_result.count = results.rent.count + results.sale.count

\* A request whose rent run failed and whose sale run upserted rows.
C15_Witness ==
    /\ both_pc = "done"
    /\ ~results.rent.success
    /\ results.sale.success /\ results.sale.count > 0

\* C16: scrape_and_upload, scrape_limited_and_upload and the requests for
\* both categories never raise to their caller: whatever fails (a result page,
\* get_existing_property_ids, a batch), what they return is a record with
\* success, message and count.
C16_AlwaysReturnsResult ==
    /\ pc = "done" =>
           /\ DOMAIN result = {"success", "message", "count"}
           /\ result.success \in BOOLEAN
           /\ result.count \in Nat
    /\ both_pc = "done" =>
           /\ {"success", "message", "count"} \subseteq DOMAIN both_result
           /\ both_result.count \in Nat

\* A per-category run of a request for both categories ended because
\* get_existing_property_ids raised.
C16_Witness ==
    /\ both_pc = "done"
    /\ \E c \in {"rent", "sale"} : results[c].message = "DatabaseException"

(***************************************************************************)
(* Properties of the price fields (checked under SpecPrice)                *)
(***************************************************************************)
\* The price string "€X per week"
WeeklyForm(x) == <<"€">> \o Dec(x) \o <<" ">> \o PerWeek

\* C18: for every price string "€X per week" with X a positive integer, the
\* listing built from it has price_eur = round(X * 52 / 12) and
\* price_period = 'month'.
C18_WeeklyBecomesMonthly ==
    \A x \in 1..MaxWeekly :
        (price_string = PyPrice(WeeklyForm(x)) /\ listing_price # NotBuilt) =>
            /\ listing_price.price_eur = Finite(100 * ((52 * x + 6) \div 12))
            /\ listing_price.price_period = "month"

\* parse_price recognised a cadence token after the number of the string
RecognisedCadence(s) ==
    /\ ~Contains(PriceOnApplication, lower(s))
    /\ ~Contains(ContactAgent, lower(s))
    /\ re_search(lower(s)).matched
    /\ re_search(lower(s)).group2 # <<>>

\* C19: the listing has a non-null price_period only when parse_price
\* recognised a weekly or monthly cadence token after the number in the same
\* price string; a string without one always yields price_period = null.
C19_PeriodOnlyWithCadence ==
    (listing_price # NotBuilt /\ listing_price.price_period # "None") =>
        RecognisedCadence(price_string.s)

\* C20: parse_price never raises and classifies every input: a string with
\* 'price on application' or 'contact agent' in any letter case gives value
\* null and type on_application, whatever else it holds; a number without a
\* cadence token gives type numeric only if a currency symbol is present;
\* an empty or non-string input, and a string without a number, give type
\* unknown; the value is null unless the type is numeric.
C20_ParsePriceTotal ==
    parsed_price_result # NotCalled =>
        LET r == parsed_price_result
            n == lower(price_string.s)
            phrase == Contains(PriceOnApplication, n) \/ Contains(ContactAgent, n)
        IN  /\ r.raised = ""
            /\ r.type \in {"numeric", "on_application", "unknown"}
            /\ phrase => (r.type = "on_application" /\ r.value = NoValue)
            /\ (~price_string.is_str \/ price_string.s = <<>>) => r.type = "unknown"
            /\ (r.type = "numeric" /\ re_search(n).group2 = <<>>) => Contains(<<"€">>, n)
            /\ (~phrase /\ ~re_search(n).matched) => r.type = "unknown"
            /\ r.type # "numeric" => r.value = NoValue

(***************************************************************************)
(* Properties of the bedrooms field (checked under SpecBeds)               *)
(***************************************************************************)
\* The bedroom string is the form f, alone or after 'from ', with or without
\* a plural 's': no 'studio' around it
IsBedForm(f) ==
    /\ bed_string.is_str
    /\ \E l \in {<<>>, <<"f", "r", "o", "m", " ">>}, t \in {<<>>, <<"s">>} :
           bed_string.s = l \o f \o t

\* C21: parse_beds returns {min 1, max 1, is_studio true} for every string
\* that contains 'studio' in any letter case, {min(N,M), max(N,M)} for
\* 'N to M Bed' and 'N-M Bed', {N, N} for a single 'N bed', and null
\* otherwise; every non-null result has min <= max, and the bedrooms of the
\* listing equal that min.
C21_ParseBeds ==
    parsed_beds # BedsNotCalled =>
        /\ (bed_string.is_str /\ Contains(Studio, lower(bed_string.s)))
                => parsed_beds = ParsedBedsResult(1, 1, TRUE)
        /\ \A n \in BedCounts, m \in BedCounts :
               (\/ IsBedForm(ToBed(n, m))
                \/ IsBedForm(DashBed(n, m))
                \/ IsBedForm(Dec(n) \o <<" ", "-", " ">> \o Dec(m) \o <<"b", "e", "d">>))
                   => parsed_beds = ParsedBedsResult(IF n <= m THEN n ELSE m,
                                                     IF n <= m THEN m ELSE n, FALSE)
        /\ \A n \in BedCounts :
               (IsBedForm(OneBed(n)) \/ IsBedForm(Dec(n) \o <<"B", "E", "D">>))
                   => parsed_beds = ParsedBedsResult(n, n, FALSE)
        /\ \A n \in BedCounts, m \in BedCounts :
               (\/ IsBedForm(Dec(n) \o <<" ", "b", "a", "t", "h">>)
                \/ IsBedForm(Dec(n) \o <<" ", "t", "o", " ">> \o Dec(m))
                \/ IsBedForm(Dec(n))
                \/ IsBedForm(<<"B", "e", "d">>)
                \/ IsBedForm(<<>>)
                \/ ~bed_string.is_str)
                   => parsed_beds.is_none
        /\ ~parsed_beds.is_none => parsed_beds.min <= parsed_beds.max
        /\ listing_bedrooms # BedroomsNotBuilt
                => listing_bedrooms = (IF parsed_beds.is_none THEN None ELSE parsed_beds.min)

\* '3 to 1 Bed' has gone through parse_beds and the transform: min 1, max 3,
\* bedrooms 1
C21_Witness ==
    /\ bed_string = PyPrice(ToBed(3, 1))
    /\ parsed_beds = ParsedBedsResult(1, 3, FALSE)
    /\ listing_bedrooms = 1

(***************************************************************************)
(* Properties of the result-page parsers (checked under SpecParse)         *)
(***************************************************************************)
\* The records of the elements of kind "ok", in the order of the page
RecordsOf(kinds, strategy) ==
    LET oks == SelectSeq([k \in 1..Len(kinds) |-> k], LAMBDA k : kinds[k] = "ok")
    IN  [j \in 1..Len(oks) |-> [strategy |-> strategy, k |-> oks[j]]]

\* The marker is present and its payload parses into listings
ParsesIntoListings(html) ==
    html.script = "present" /\ html.shape = "object" /\ html.listings # <<>>

\* C22: parse_search_results never raises and returns the records of exactly
\* one strategy: the structured records when the __NEXT_DATA__ marker is
\* present and its payload parses into listings, and the result of the markup
\* strategy whenever the marker is absent or parsing the payload fails
\* (invalid JSON, or valid JSON that is not an object of the expected shape).
C22_OneStrategyNeverRaises ==
    (parse_fn = "parse_search_results" /\ parse_pc = "done") =>
        /\ parse_result.raised = ""
        /\ parse_result.returned
        /\ parse_result.properties =
               IF ParsesIntoListings(parse_arg)
               THEN RecordsOf(parse_arg.listings, "next_data")
               ELSE RecordsOf(parse_arg.cards, "markup")

\* C24: in parse_search_results and parse_next_data_search_results an item
\* that fails to parse never aborts the loop or removes other items: while
\* the loop runs the list holds, in page order, the record of every item
\* before the current one that parses, and the list returned holds the record
\* of every item of the page that parses.
C24_ItemFailureIsolated ==
    /\ parse_pc = "listings" =>
           properties = RecordsOf(SubSeq(parse_arg.listings, 1, item_idx - 1), "next_data")
    /\ parse_pc = "cards" =>
           properties = RecordsOf(SubSeq(parse_arg.cards, 1, item_idx - 1), "markup")
    /\ (parse_pc = "done" /\ parse_result.returned) =>
           IF ParsesIntoListings(parse_arg)
           THEN parse_result.properties = RecordsOf(parse_arg.listings, "next_data")
           ELSE parse_result.properties = RecordsOf(parse_arg.cards, "markup")

\* A page whose second listing is no object and whose third parses has been
\* parsed: the records of the first and the third are returned
C24_Witness ==
    /\ parse_fn = "parse_next_data_search_results"
    /\ parse_arg.listings = <<"ok", "not_dict", "ok">>
    /\ parse_pc = "done"
    /\ parse_result.properties = <<FromNextData(1), FromNextData(3)>>

(***************************************************************************)
(* Properties of the detail merge (checked under SpecDetails)              *)
(***************************************************************************)
\* C23: parse_property_details never overwrites a populated field of the
\* candidate: a latitude, longitude or ber that is non-null before the call
\* has the same value after it, whatever the detail markup holds, and every
\* other field is unchanged.
C23_NoOverwrite ==
    detail_html # NoDetailHtml =>
        /\ property_before.latitude # None
                => property_data.latitude = property_before.latitude
        /\ property_before.longitude # None
                => property_data.longitude = property_before.longitude
        /\ property_before.ber # "None" => property_data.ber = property_before.ber
        /\ property_data.others = property_before.others

(***************************************************************************)
(* Properties of the structured-data requests (checked under SpecJson)     *)
(***************************************************************************)
\* The body arrived and has no __NEXT_DATA__ marker
MarkerAbsent(resp) == resp.outcome = "200" /\ resp.body.script # "present"

\* The marker is there and its payload does not parse as JSON
PayloadUnparseable(resp) ==
    resp.outcome = "200" /\ resp.body.script = "present" /\ resp.body.shape = "invalid_json"

\* C25: fetch_search_results_json fails with a ScrapingException when the
\* response body has no __NEXT_DATA__ marker or when the payload of the
\* marker does not parse as JSON.
C25_FailsWithScrapingException ==
    (/\ nd_fn = "fetch_search_results_json"
     /\ MarkerAbsent(response) \/ PayloadUnparseable(response))
        => nd_result.raised = "ScrapingException"

\* The dynamic identifier cannot be had: request error, missing marker,
\* unparseable payload, payload that is no object or has no buildId
BuildIdFailure(resp) ==
    \/ resp.outcome # "200"
    \/ MarkerAbsent(resp)
    \/ PayloadUnparseable(resp)
    \/ resp.body.shape = "not_object"
    \/ resp.build_id \in {"None", ""}

\* C26 as stated: get_build_id never raises and returns the hardcoded
\* identifier on any failure, so build_property_api_url always returns a URL
\* built with the dynamic or the hardcoded identifier.
C26_GetBuildIdNeverRaises ==
    /\ nd_fn = "get_build_id" =>
           /\ nd_result.raised = ""
           /\ BuildIdFailure(response) => nd_result.value = FallbackBuildId
    /\ nd_fn = "build_property_api_url" =>
           /\ nd_result.raised = ""
           /\ nd_result.value \in {FallbackBuildId, response.build_id}

\* C26 amended: build_property_api_url never raises and returns a URL built
\* with the hardcoded identifier on any failure and with the dynamic one
\* otherwise; get_build_id returns the hardcoded identifier on a request
\* error and on a payload that is no JSON object, and raises
\* ScrapingException when the marker or the buildId is missing.
C26_UrlAlwaysBuilt ==
    /\ nd_fn = "build_property_api_url" =>
           /\ nd_result.raised = ""
           /\ nd_result.value = IF BuildIdFailure(response) THEN FallbackBuildId
                                ELSE response.build_id
    /\ nd_fn = "get_build_id" =>
           IF \/ response.outcome # "200"
              \/ PayloadUnparseable(response)
              \/ ~MarkerAbsent(response) /\ response.body.shape = "not_object"
           THEN nd_result = NdReturns(FallbackBuildId)
           ELSE IF BuildIdFailure(response)
           THEN nd_result.raised = "ScrapingException"
           ELSE nd_result = NdReturns(response.build_id)

\* build_property_api_url got a page without the marker and built the URL
\* with the hardcoded identifier
C26_Witness ==
    /\ nd_fn = "build_property_api_url"
    /\ MarkerAbsent(response)
    /\ nd_result = NdReturns(FallbackBuildId)

(***************************************************************************)
(* Properties of the REST API (checked under SpecApi)                      *)
(***************************************************************************)
Active == {k \in DOMAIN handled : handled[k].phase \in {"running", "in_request"}}

\* C27: POST /scrape/async answers success = true, count = 0 before the
\* scrape issues a fetch; its background task makes the calls on the scraper
\* that POST /scrape makes for the same request, with the same arguments; a
\* failure of the background work is caught and never raised.
C27_AsyncSameWork ==
    \A k \in DOMAIN handled :
        handled[k].endpoint = "/scrape/async" /\ handled[k].phase # "rejected" =>
            /\ handled[k].http_response = ScrapingResponse(200, TRUE, 0)
            /\ handled[k].failure # "raised"
            /\ IF handled[k].phase = "queued"
               THEN handled[k].fetches = 0 /\ handled[k].invoked = <<>>
               ELSE handled[k].invoked \o handled[k].todo
                        = scrape_properties_calls(ScrapingRequest(handled[k].body))

\* A background task for 'both' with max_properties made its two calls and
\* ended, and the background task of another request failed
C27_Witness ==
    \E j, k \in DOMAIN handled :
        /\ handled[j].endpoint = "/scrape/async"
        /\ handled[j].phase = "done"
        /\ handled[j].failure = ""
        /\ Len(handled[j].invoked) = 2
        /\ handled[j].fetches = 2 * Len(CallFetches)
        /\ handled[k].endpoint = "/scrape/async"
        /\ handled[k].failure = "caught"

\* C28: POST /scrape with a listing_type outside {rent, sale, both} or a
\* location outside the allowed locations is answered with status 422; no
\* operation of the scraper is called and no fetch is issued for it.
C28_InvalidRejected ==
    \A k \in DOMAIN handled :
        /\ handled[k].endpoint = "/scrape"
        /\ \/ handled[k].body.listing_type \notin {"rent", "sale", "both"}
           \/ lower(handled[k].body.location) \notin valid_locations
        => /\ handled[k].http_response.status = 422
           /\ handled[k].invoked = <<>>
           /\ handled[k].fetches = 0
           /\ \A n \in DOMAIN session_requests : session_requests[n].run # k

\* One POST /scrape with an unknown listing_type and one with an unknown
\* location were answered with 422
C28_Witness ==
    \E j, k \in DOMAIN handled :
        /\ handled[j].endpoint = "/scrape"
        /\ handled[j].body.listing_type = "invalid_type"
        /\ lower(handled[j].body.location) \in valid_locations
        /\ handled[j].http_response.status = 422
        /\ handled[k].endpoint = "/scrape"
        /\ handled[k].body.listing_type = "rent"
        /\ lower(handled[k].body.location) \notin valid_locations
        /\ handled[k].http_response.status = 422

\* C29: whatever the interleaving of POST /scrape and POST /scrape/async
\* requests of one server process, at most one pipeline run is at work at a
\* time, and at most one request is open on the session of the shared Fetcher.
C29_OneRunAtATime ==
    /\ Cardinality(Active) <= 1
    /\ Len(session_requests) <= 1
    /\ \A n \in DOMAIN session_requests : session_requests[n].run \in Active

\* A POST /scrape arrived between the response of a POST /scrape/async and the
\* start of its background task, and is fetching the detail of a listing
C29_Witness ==
    \E j, k \in DOMAIN handled :
        /\ handled[j].endpoint = "/scrape/async"
        /\ handled[j].phase = "queued"
        /\ handled[k].endpoint = "/scrape"
        /\ handled[k].phase = "in_request"
        /\ session_requests = <<[run |-> k, kind |-> "detail"]>>

(***************************************************************************)
(* Properties of the delays of the paging loops (checked under Spec)       *)
(***************************************************************************)
\* C30: in every paging loop the request for the first result page follows
\* the entry of the loop with no delay, and the request for any later page
\* comes right after a delay of 1500 ms that follows the request or the
\* detail requests of the page before, failed or empty or not; the detail
\* requests of a listing come right after a delay of 500 ms.
C30_Delays ==
    \A n \in DOMAIN timeline :
        /\ timeline[n].ev = "page" =>
               /\ n > 1
               /\ \/ timeline[n - 1] = LoopStart
                  \/ /\ timeline[n - 1] = Delay(1500)
                     /\ n > 2
                     /\ timeline[n - 2].ev \in {"page", "detail"}
        /\ timeline[n].ev = "detail" =>
               /\ n > 1
               /\ \/ timeline[n - 1] = Delay(500)
                  \/ timeline[n - 1] = timeline[n]
        /\ (timeline[n].ev = "delay" /\ timeline[n].ms = 1500) =>
               n < Len(timeline) /\ timeline[n + 1].ev = "page"

\* The first page of a limited run failed and the second was requested after
\* 1500 ms; one of its listings got a request for the detail JSON and one
\* for the detail page after its 500 ms
C30_Witness ==
    /\ mode = "scrape_limited_and_upload"
    /\ \E n \in DOMAIN timeline :
           /\ n + 3 <= Len(timeline)
           /\ timeline[n] = LoopStart
           /\ timeline[n + 1] = PageFetch(1)
           /\ timeline[n + 2] = Delay(1500)
           /\ timeline[n + 3] = PageFetch(2)
    /\ \E n \in DOMAIN timeline :
           /\ n + 2 <= Len(timeline)
           /\ timeline[n] = Delay(500)
           /\ timeline[n + 1].ev = "detail"
           /\ timeline[n + 2] = timeline[n + 1]

(***************************************************************************)
(* Properties of the limited paging loops (checked under SpecPages)        *)
(***************************************************************************)
CountUp(n) == [k \in 1..n |-> k]

\* C31: in the loops of scrape_limited_and_upload and scrape_limited_pages
\* the page counter advances by one in every iteration, whether the page
\* gave listings, none or no payload: the pages requested are 1, 2, 3, ...
\* up to the counter, each once.
C31_PageCounterAdvances ==
    /\ mode = "scrape_limited_and_upload" => pages_fetched = CountUp(current_page - 1)
    /\ mode = "scrape_limited_pages" =>
           pages_fetched = CountUp(IF pc = "details" THEN current_page ELSE current_page - 1)

\* scrape_limited_pages got listings from page 1, no payload for page 2 and
\* no listing from page 3, and returned
C31_Witness ==
    /\ mode = "scrape_limited_pages"
    /\ pc = "returned"
    /\ KindOf(2) = "Fail"
    /\ KindOf(3) = "Empty"
    /\ pages_fetched = <<1, 2, 3>>
    /\ all_properties # <<>>

\* The records scrape_limited_pages has collected
Collected ==
    Len(all_properties) + (IF pc = "details" THEN Len(detailed_properties) ELSE 0)

\* C34: in scrape_limited_pages properties_scraped is the number of records
\* collected and at most max_properties at every point, so at most
\* max_properties records are returned, and no result page is requested once
\* properties_scraped has reached max_properties.
C34_AtMostMaxProperties ==
    /\ [](mode = "scrape_limited_pages" =>
             /\ properties_scraped = Collected
             /\ properties_scraped <= max_properties
             /\ Len(all_properties) <= max_properties)
    /\ [][(mode = "scrape_limited_pages" /\ pages_fetched' # pages_fetched) =>
              properties_scraped < max_properties]_vars

\* scrape_limited_pages returned max_properties records with result pages
\* left, the last page cut to the room that was left
C34_Witness ==
    /\ mode = "scrape_limited_pages"
    /\ pc = "returned"
    /\ max_properties = MaxProperties
    /\ Len(all_properties) = max_properties
    /\ current_page <= total_pages
    /\ Len(ItemsOf(current_page - 1)) > 1
    /\ all_properties[Len(all_properties)].key = (current_page - 1) * 1000 + 1

(***************************************************************************)
(* fetch_page_html against fetch_json_api (checked under SpecFetch)        *)
(***************************************************************************)
\* What the retry loop shared by the two functions does for a sequence of
\* upstream outcomes: one request per outcome, after every outcome that is
\* retried the configured delay (doubled after a 403), nothing after the last
\* request of a call that ended.
DelayAfter(outcome) ==
    IF outcome = "403" THEN Delay(RETRY_DELAY_MS * 2) ELSE Delay(RETRY_DELAY_MS)

RequestsFor(outcomes, ended) ==
    [n \in 1..(2 * Len(outcomes) - (IF ended THEN 1 ELSE 0)) |->
        IF n % 2 = 1 THEN GetUrl ELSE DelayAfter(outcomes[n \div 2])]

EndFor(outcomes) ==
    LET n == Len(outcomes)
        o == outcomes[n]
        retry == IF utils_importable THEN <<"running", "">>
                                     ELSE <<"raised", "ModuleNotFoundError">>
    IN  CASE o = "200" -> <<"returned", "">>
          [] o = "404" -> <<"raised", "ScrapingException">>
          [] o = "403" -> IF n <= MAX_FETCH_RETRIES THEN retry
                          ELSE <<"raised", "RateLimitException">>
          [] OTHER -> IF n <= MAX_FETCH_RETRIES THEN retry
                      ELSE <<"raised", "NetworkException">>

\* Outcomes the two functions both have: status codes, timeouts and transport
\* errors, every 200 with a body that parses.
SharedOutcomes ==
    /\ fetch_fn # "none"
    /\ Len(responses) > 0
    /\ \A n \in DOMAIN responses : responses[n] # "bad_json"

\* The main-page visit at the head of the log, if there is one.
WarmUpLen ==
    IF Len(fetch_log) >= 1 /\ fetch_log[1] = GetMain
    THEN (IF Len(fetch_log) >= 2 /\ fetch_log[2] = Delay(1000) THEN 2 ELSE 1)
    ELSE 0
AfterWarmUp == SubSeq(fetch_log, WarmUpLen + 1, Len(fetch_log))

\* C32 (as claimed): for the same outcomes and every page_number the two
\* functions issue the same requests, wait the same delays in the same order
\* and end alike: the requests, delays and end of a call are those of the
\* shared retry loop, whichever function is called with whichever page_number.
C32_SameBehaviour ==
    SharedOutcomes =>
        /\ fetch_log = RequestsFor(responses, Ended)
        /\ <<fetch_result.kind, fetch_result.exc>> = EndFor(responses)

\* C32 (amended): the two functions issue the same requests to the url with the
\* same delays in the same order and end alike for every page_number and
\* every sequence of status codes, timeouts and transport errors, a 200 having
\* a body that parses; only fetch_page_html with page_number 1 first visits the
\* main page, once, before its first request, and waits 1000 ms after it when
\* that visit did not raise; a 200 with a body that is not JSON ends
\* fetch_json_api with a ScrapingException.
C32_SameRetryLoop ==
    /\ SharedOutcomes =>
        /\ AfterWarmUp = RequestsFor(responses, Ended)
        /\ <<fetch_result.kind, fetch_result.exc>> = EndFor(responses)
        /\ WarmUpLen > 0 <=> (fetch_fn = "fetch_page_html" /\ page_number = 1)
    /\ (fetch_fn # "none" /\ Len(responses) > 0
            /\ responses[Len(responses)] = "bad_json") =>
        /\ fetch_fn = "fetch_json_api"
        /\ <<fetch_result.kind, fetch_result.exc>> = <<"raised", "ScrapingException">>

\* fetch_page_html for result page 1 retried after a 403 and a timeout and
\* then succeeded, its warm-up included.
C32_Witness ==
    /\ fetch_fn = "fetch_page_html"
    /\ page_number = 1
    /\ responses = <<"403", "timeout", "200">>
    /\ fetch_log = <<GetMain, Delay(1000), GetUrl, Delay(RETRY_DELAY_MS * 2), GetUrl,
                     Delay(RETRY_DELAY_MS), GetUrl>>
    /\ fetch_result.kind = "returned"

(***************************************************************************)
(* The batches handed to upsert_properties_batch (checked under Spec)      *)
(***************************************************************************)
\* The number of records handed over so far.
Batched == IF batches = <<>> THEN 0
           ELSE (Len(batches) - 1) * 100 + Len(batches[Len(batches)])

\* C33: the new records go to upsert_properties_batch in consecutive batches
\* of at most 100, in their original order: the k-th batch holds the records
\* from position 100 * (k - 1) + 1 on, every batch but the last holds exactly
\* 100, and when the loop is over every record was in exactly one batch.
C33_ConsecutiveBatches ==
    /\ \A k \in DOMAIN batches :
        /\ Len(batches[k]) \in 1..100
        /\ k < Len(batches) => Len(batches[k]) = 100
        /\ 100 * (k - 1) + Len(batches[k]) <= Len(new_properties)
        /\ \A j \in DOMAIN batches[k] : batches[k][j] = new_properties[100 * (k - 1) + j]
    /\ (pc = "upsert" /\ i >= Len(new_properties)) => Batched = Len(new_properties)
    /\ (pc = "done" /\ batches # <<>>) => Batched = Len(new_properties)

\* More than 100 new records went out in a full batch and a smaller last one.
C33_Witness ==
    /\ pc = "done"
    /\ Len(new_properties) > 100
    /\ Len(batches) = 2
    /\ Len(batches[1]) = 100
    /\ Len(batches[2]) = Len(new_properties) - 100
    /\ Len(batches[2]) < 100

(***************************************************************************)
(* The session after Fetcher.close (checked under SpecBoth and Spec)       *)
(***************************************************************************)
IsRequest(e) == e.ev \in {"page", "detail"}

\* The events a step adds to the timeline of the run.
Added == IF Len(timeline') > Len(timeline)
         THEN SubSeq(timeline', Len(timeline) + 1, Len(timeline'))
         ELSE <<>>

\* C35: no request is issued on a session after close() has been called on it:
\* a step that fetches a result page or a detail page is taken with a session
\* that no earlier run of the scraper closed.
C35_NoRequestAfterClose ==
    [][(\E n \in DOMAIN Added : IsRequest(Added[n])) => ~session_closed]_vars

(***************************************************************************)
(* Detail requests of scrape_limited_and_upload (checked under Spec)       *)
(***************************************************************************)
\* The candidate's id is one of the known ids or of the ids processed on
\* the pages before.
KnownOrProcessed(c) ==
    LET id == transform_id(c.id)
    IN  id # None /\ id \in (existing_ids \cup processed_property_ids)

\* C36: scrape_limited_and_upload issues no detail request for a candidate
\* whose id is known or already processed: in an iteration of the paging
\* loop no detail request goes out for the k-th candidate of the page when
\* its id is in the known-id set or in the processed-id set.
C36_NoDetailForKnown ==
    [][(/\ mode = "scrape_limited_and_upload"
        /\ pc = "paging"
        /\ pages_fetched' # pages_fetched
        /\ ~PageFails(current_page))
       => \A k \in DOMAIN ItemsOf(current_page) :
            KnownOrProcessed(ItemsOf(current_page)[k])
                => \A n \in DOMAIN Added : Added[n] # DetailFetch(k)]_vars

(***************************************************************************)
(* Termination of scrape_all_pages (checked under SpecTerm)                *)
(***************************************************************************)
InScrapeAllPages == mode = "scrape_and_upload" /\ pc = "paging"

PageOneFetches == Cardinality({n \in DOMAIN pages_fetched : pages_fetched[n] = 1})

\* The calls of scrape_all_pages in the run: the first and the restarts.
Calls == Cardinality({n \in DOMAIN timeline : timeline[n] = LoopStart})

\* The iteration that gives up the structured strategy on result page 1:
\* "return self.scrape_all_pages(base_url, listing_type, use_json_api=False)".
MarkupRestart ==
    /\ use_json_api /\ ~use_json_api'
    /\ current_page = 1 /\ current_page' = 1
    /\ total_pages' = 1

\* C37: scrape_all_pages terminates for every upstream behaviour: every
\* iteration of its loop raises the page counter by one, but for the one that
\* restarts with the markup strategy; total_pages is set only in the iteration
\* for page 1 and never exceeds MAX_PAGES_TO_FETCH; there is at most one
\* restart, so result page 1 is requested at most twice; and the loop ends.
C37_ScrapeAllPagesTerminates ==
    /\ [](mode = "scrape_and_upload" =>
            /\ total_pages <= MAX_PAGES_TO_FETCH
            /\ Calls <= 2
            /\ PageOneFetches <= 2
            /\ Len(pages_fetched) <= MAX_PAGES_TO_FETCH + 1)
    /\ [][(InScrapeAllPages /\ pages_fetched' # pages_fetched) =>
            \/ MarkupRestart
            \/ /\ current_page' = current_page + 1
               /\ use_json_api' = use_json_api
               /\ total_pages' # total_pages => current_page = 1]_vars
    /\ (InScrapeAllPages ~> (InScrapeAllPages /\ PagingFinished))

\* After a restart on page 1 the loop went through all the pages the cap
\* allows and ended.
C37_Witness ==
    /\ InScrapeAllPages
    /\ PagingFinished
    /\ ~use_json_api
    /\ total_pages = MAX_PAGES_TO_FETCH
    /\ pages_fetched = <<1, 1, 2, 3, 4, 5>>

(***************************************************************************)
(* Coordinates of parse_property_details_json (checked under               *)
(* SpecCoordinates)                                                        *)
(***************************************************************************)
\* C38: a ScrapedProperty returned by parse_property_details_json has
\* latitude and longitude both null or both non-null, and a coordinate that
\* the payload gives as 0 is emitted as 0, not as null.
C38_CoordinatesPaired ==
    enhanced_property.returned =>
        /\ (enhanced_property.latitude = None) <=> (enhanced_property.longitude = None)
        /\ read_coordinates(json_listing).latitude = 0 => enhanced_property.latitude = 0
        /\ read_coordinates(json_listing).longitude = 0 => enhanced_property.longitude = 0

(***************************************************************************)
(* new_properties in scrape_limited_and_upload (checked under Spec)        *)
(***************************************************************************)
NewIds == {new_properties[n].id : n \in DOMAIN new_properties}

\* C39: at every point of the paging loop of scrape_limited_and_upload the
\* ids of the records in new_properties are pairwise distinct, are exactly
\* the ids in processed_property_ids, and none of them is in the known-id set
\* fetched at the start of the run.
C39_NewPropertiesDistinct ==
    (mode = "scrape_limited_and_upload" /\ pc = "paging") =>
        /\ Cardinality(NewIds) = Len(new_properties)
        /\ NewIds = processed_property_ids
        /\ NewIds \cap existing_ids = {}

\* Two pages into a run against a table that already holds listings, with new
\* records collected and a listing of the page met a second time.
C39_Witness ==
    /\ mode = "scrape_limited_and_upload"
    /\ pc = "paging"
    /\ current_page = 3
    /\ existing_ids # {}
    /\ Len(new_properties) >= 2
    /\ \E p \in 1..2 : ~PageFails(p) /\
         \E j, k \in DOMAIN ItemsOf(p) : j < k /\ ItemsOf(p)[j].id = ItemsOf(p)[k].id
              /\ transform_id(ItemsOf(p)[j].id) \in NewIds

=============================================================================
